---- MODULE Spec2Model ----
(***************************************************************************)
(* Verification model of the octo-code agent orchestration engine:         *)
(*   - process_stream: reconstruction of an assistant message from the     *)
(*     provider's event stream (src/src/agent/agent.rs)                    *)
(*   - agent_loop and trim_messages_to_fit (src/src/agent/agent.rs)        *)
(*   - the permission services (permission_ui.rs, tui/permission.rs)       *)
(*   - the provider adapter's retry loop (octo-providers/src/openai.rs)    *)
(* Each component has its own specification over the shared variables;     *)
(* the variables of the other components stay at their initial values.     *)
(***************************************************************************)
EXTENDS Integers, Sequences, FiniteSets, TLC

VARIABLES
    \* process_stream (agent.rs)
    ps,          \* the locals of one call (msg.parts, buffers, ...)
    stream_in,   \* the provider events the call has consumed so far
    \* OpenAiProvider::stream_response, the retry loop (openai.rs)
    attempt,     \* the loop counter "attempt"
    last_err,    \* the local "last_err"
    resp_ok,     \* TRUE when "resp_ok" holds a 2xx response
    slept,       \* the tokio::time::sleep durations (ms) of the loop, in order
    responses,   \* what each HTTP attempt ended in, in order
    rt_pc,       \* "loop", or how the call returned
    \* the permission service (permission_ui.rs, tui/permission.rs) and the
    \* TUI's side of it (tui/mod.rs)
    perm_kind,              \* "cli": CliPermissionService, "tui": TuiPermissionService
    auto_approve_sessions,  \* the field auto_approve_sessions
    persistent_approvals,   \* the field persistent_approvals
    perm_chan,              \* the mpsc channel tx -> perm_rx: callers whose request is queued
    pending_permission,     \* TuiApp.pending_permission: the caller whose dialog is shown
    tui_alive,              \* FALSE once the TUI has dropped perm_rx and the responders
    calls,                  \* per caller: its current or last request() call
    issued,                 \* the number of request() calls made so far
    auto_called,            \* sessions auto_approve_session was called for (history)
    always_returned,        \* triples a request() returned AllowPersistent for (history)
    \* agent_loop (agent.rs)
    messages,        \* the local "messages": the history of the turn
    context_window,  \* provider.model().context_window
    loop_pc,         \* where the loop is: start, top, request, stream, dispatch, done, failed
    agent_attempt,   \* the counter of "for agent_attempt in 0..3u32"
    event_stream,    \* the events of the stream stream_response returned
    assistant_msg,   \* the message process_stream returned
    tool_results,    \* the local "tool_results" of the ToolUse branch
    tx_events,       \* the AgentEvents sent on tx, in order
    cancelled,       \* cancel.is_cancelled()
    rounds,          \* process_stream calls of the turn so far
    pre_trim,        \* the history the last trim_messages_to_fit call was given
    \* the SSE decoder of OpenAiProvider::stream_response (openai.rs)
    sse_in,              \* the "data:" payloads decoded so far, in order
    has_content,         \* the local "has_content"
    current_tool_calls,  \* the local "current_tool_calls": index -> (id, name)
    \* the TUI driver and the session store (tui/mod.rs, storage/session_repo.rs)
    db_sessions,     \* the sessions table: id -> stored Session
    tui_app,         \* TuiApp: session, total_tokens, total_cost, is_streaming
    turns,           \* turns the TUI has submitted so far
    last_complete,   \* the last Complete event handled, with the row it found (history)
    \* the task tools over tasks/<team> (task_mgmt.rs, core/team.rs)
    task_files,      \* tasks/<team>/<id>.json: id -> TaskItem
    task_counter,    \* tasks/<team>/counter.json: next_id
    last_task_op,    \* the last task tool run: its call, result and the files before it
    \* BashTool::run (tools/bash.rs)
    last_bash,       \* the last run: command, session, and what it did (None: no run yet)
    \* the team tools of the lead process (tools/team.rs) over the base directory
    team_state,      \* the shared Option<TeamState>: None, or the team and agent name
    team_dirs,       \* teams/<team>: team name -> the TeamConfig of its config.json
    tasks_dirs,      \* the team names whose tasks/<team> directory exists
    last_team_op,    \* the last team tool run: its call, result and the state before it
    \* the inboxes of a team (send_message.rs, core/team.rs)
    inbox_files,     \* inboxes/<agent>.json: agent -> the stored Vec<InboxMessage>
    inbox_clock,     \* chrono::Utc::now() as a count of the messages sent so far
    inbox_sent,      \* per agent: the timestamps appended to its inbox, in order (history)
    inbox_returned,  \* per agent: the messages each of its check_inbox calls returned (history)
    last_inbox_op,   \* the last inbox tool run
    th_now,    \* the clock of the provider instance, in ms
    last_request,    \* OpenAiProvider.last_request
    th_holder,    \* the caller holding the last_request mutex, 0 for none
    th_pc,    \* where each caller of the provider stands
    th_wake,    \* the deadline of each caller's tokio::time::sleep
    th_attempt,    \* "attempt" of each caller's retry loop
    req_starts,   \* the start times of the last two HTTP requests
    bg_tasks,    \* the tasks spawned by Agent::run, one per turn, in order
    agent_rx,   \* TuiApp.agent_rx as the index of the task it receives from, 0 for None
    fs_file,    \* the file at the path of the edit calls: None when missing, else its content
    last_edit,   \* the last EditTool::run: its input, the file before and after, and what it did
    sib_inbox,    \* inboxes/<recipient>.json as the sibling processes see it
    sib_counter,    \* tasks/<team>/counter.json: next_id
    sib_tasks,    \* tasks/<team>/<id>.json: id -> the task stored
    sib_pc,    \* where each sibling process stands in its tool run
    sib_local,    \* what each process has read and not yet written back
    sib_ops,    \* per process: the tool runs started
    sib_sent,    \* the messages whose append_inbox call has returned (history)
    sib_created,    \* the task_create runs that have returned: process, run and id (history)
    sib_stale,   \* which files were written from a value read before another write (history)
    wt,    \* a TUI turn that dispatches the write tool: the task, the token, the permission dialog, the file
    wt_writes,   \* the writes of the write tool: content, and whether the token had fired while it waited (history)
    bt_pc,    \* where the bash call of the turn is: idle, ran, returned, panicked, next_round, done
    bt_out,    \* what the spawned bash produced: stdout, stderr, exit
    bt_result,    \* the ToolResult of BashTool::run
    bt_events    \* the agent events sent after the tool ran

streamVars == <<ps, stream_in>>
retryVars == <<attempt, last_err, resp_ok, slept, responses, rt_pc>>
permVars == <<perm_kind, auto_approve_sessions, persistent_approvals, perm_chan,
              pending_permission, tui_alive, calls, issued, auto_called,
              always_returned>>
loopVars == <<messages, context_window, loop_pc, agent_attempt, event_stream,
              assistant_msg, tool_results, tx_events, cancelled, rounds, pre_trim>>
decodeVars == <<sse_in, has_content, current_tool_calls>>
\* The components added to the four above.
tuiVars == <<db_sessions, tui_app, turns, last_complete>>
taskVars == <<task_files, task_counter, last_task_op>>
bashVars == <<last_bash>>
teamVars == <<team_state, team_dirs, tasks_dirs, last_team_op>>
inboxVars == <<inbox_files, inbox_clock, inbox_sent, inbox_returned, last_inbox_op>>
throttleVars == <<th_now, last_request, th_holder, th_pc, th_wake, th_attempt, req_starts>>
turnVars == <<bg_tasks, agent_rx>>
editVars == <<fs_file, last_edit>>
sibVars == <<sib_inbox, sib_counter, sib_tasks, sib_pc, sib_local, sib_ops, sib_sent, sib_created, sib_stale>>
gateVars == <<wt, wt_writes>>
truncVars == <<bt_pc, bt_out, bt_result, bt_events>>
extVars == <<decodeVars, tuiVars, taskVars, bashVars, teamVars, inboxVars,
            throttleVars,
            turnVars,
            editVars,
            sibVars,
            gateVars,
            truncVars>>
vars == <<streamVars, retryVars, permVars, loopVars, extVars>>

nonStreamVars == <<retryVars, permVars, loopVars, extVars>>
nonRetryVars == <<streamVars, permVars, loopVars, extVars>>
nonPermVars == <<streamVars, retryVars, loopVars, extVars>>
nonLoopVars == <<streamVars, retryVars, permVars, extVars>>
\* The SSE decoder feeds process_stream: it moves decodeVars and streamVars.
nonDecodeVars == <<retryVars, permVars, loopVars, tuiVars, taskVars, bashVars,
                   teamVars, inboxVars,
                 throttleVars,
                 turnVars,
                 editVars,
                 sibVars,
                 gateVars,
                 truncVars>>
nonTuiVars == <<streamVars, retryVars, permVars, loopVars, decodeVars, taskVars,
                bashVars, teamVars, inboxVars,
                 throttleVars,
                 turnVars,
                 editVars,
                 sibVars,
                 gateVars,
                 truncVars>>
nonTaskVars == <<streamVars, retryVars, permVars, loopVars, decodeVars, tuiVars,
                 bashVars, teamVars, inboxVars,
                 throttleVars,
                 turnVars,
                 editVars,
                 sibVars,
                 gateVars,
                 truncVars>>
\* BashTool::run consults the permission service: it moves bashVars and permVars.
nonBashVars == <<streamVars, retryVars, loopVars, decodeVars, tuiVars, taskVars,
                 teamVars, inboxVars,
                 throttleVars,
                 turnVars,
                 editVars,
                 sibVars,
                 gateVars,
                 truncVars>>
nonTeamVars == <<streamVars, retryVars, permVars, loopVars, decodeVars, tuiVars,
                 taskVars, bashVars, inboxVars,
                 throttleVars,
                 turnVars,
                 editVars,
                 sibVars,
                 gateVars,
                 truncVars>>
nonInboxVars == <<streamVars, retryVars, permVars, loopVars, decodeVars, tuiVars,
                  taskVars, bashVars, teamVars,
                 throttleVars,
                 turnVars,
                 editVars,
                 sibVars,
                 gateVars,
                 truncVars>>
nonThrottleVars == <<streamVars, retryVars, permVars, loopVars, decodeVars,
                 tuiVars, taskVars, bashVars, teamVars, inboxVars,
                 turnVars,
                 editVars,
                 sibVars,
                 gateVars,
                 truncVars>>
\* The turns of the TUI move tuiVars and turnVars.
nonTurnVars == <<streamVars, retryVars, permVars, loopVars, decodeVars,
                 taskVars, bashVars, teamVars, inboxVars, throttleVars,
                 editVars,
                 sibVars,
                 gateVars,
                 truncVars>>
nonEditVars == <<streamVars, retryVars, permVars, loopVars, decodeVars,
                 tuiVars, taskVars, bashVars, teamVars, inboxVars, throttleVars, turnVars,
                 sibVars,
                 gateVars,
                 truncVars>>
nonSibVars == <<streamVars, retryVars, permVars, loopVars, decodeVars,
                 tuiVars, taskVars, bashVars, teamVars, inboxVars, throttleVars, turnVars, editVars,
                 gateVars,
                 truncVars>>
nonGateVars == <<streamVars, retryVars, permVars, loopVars, decodeVars,
                 tuiVars, taskVars, bashVars, teamVars, inboxVars, throttleVars, turnVars, editVars, sibVars,
                 truncVars>>
nonTruncVars == <<streamVars, retryVars, permVars, loopVars, decodeVars,
                 tuiVars, taskVars, bashVars, teamVars, inboxVars, throttleVars, turnVars, editVars, sibVars, gateVars>>

(***************************************************************************)
(* Bounds of the model.                                                    *)
(***************************************************************************)
MaxEvents == 5      \* provider events consumed by one process_stream call
MaxCalls == 2       \* ToolUseStart events of one well-framed stream
MaxChunks == 2      \* ToolUseDelta chunks that follow one ToolUseStart
MaxRequests == 4    \* PermissionService::request calls of one run
MaxRounds == 2      \* model rounds (process_stream calls) of one turn
MaxSse == 4         \* "data:" payloads of one streamed response before its finish
MaxTurns == 3       \* turns submitted in one run of the TUI
MaxTasks == 2       \* tasks created in one team
MaxInbox == 3       \* messages sent to the inboxes of one team

(***************************************************************************)
(* Small helpers.                                                          *)
(***************************************************************************)
Last(s) == s[Len(s)]

(***************************************************************************)
(* Content parts (octo-core/src/message.rs, enum ContentPart).            *)
(***************************************************************************)
TextPart(t) == [type |-> "text", text |-> t]
ReasoningPart(t) == [type |-> "reasoning", text |-> t]
ToolCallPart(id, name, input) ==
    [type |-> "tool_call", id |-> id, name |-> name, input |-> input]
ToolResultPart(id, content, is_error) ==
    [type |-> "tool_result", tool_call_id |-> id, content |-> content,
     is_error |-> is_error]
FinishPart(reason) == [type |-> "finish", reason |-> reason]

FinishReasons ==
    {"end_turn", "max_tokens", "tool_use", "cancelled", "error", "permission_denied"}

\* TokenUsage::default()
DefaultUsage == [input_tokens |-> 0, output_tokens |-> 0]

\* The usage a Complete event of the model reports.
Usage1 == [input_tokens |-> 10, output_tokens |-> 5]

\* The usage the provider reports for the request of round r: every request
\* is billed on its own, so the rounds of a turn report different counts.
RoundUsage(r) == [input_tokens |-> 10 * r, output_tokens |-> 5 * r]

IsToolCall(p) == p.type = "tool_call"
IsFinish(p) == p.type = "finish"

\* Message::tool_calls: the ToolCall parts, in order.
tool_calls(parts) == SelectSeq(parts, IsToolCall)

\* Message::add_finish
add_finish(parts, reason) == Append(parts, FinishPart(reason))

(***************************************************************************)
(* Provider events (core/provider.rs, enum ProviderEvent).                 *)
(***************************************************************************)
EvContentStart == [type |-> "ContentStart"]
EvContentDelta(t) == [type |-> "ContentDelta", text |-> t]
EvContentStop == [type |-> "ContentStop"]
EvThinkingDelta(t) == [type |-> "ThinkingDelta", text |-> t]
EvToolUseStart(id, name) == [type |-> "ToolUseStart", id |-> id, name |-> name]
EvToolUseDelta(chunk) == [type |-> "ToolUseDelta", input_json_chunk |-> chunk]
EvToolUseStop == [type |-> "ToolUseStop"]
EvComplete(fr, u) == [type |-> "Complete", finish_reason |-> fr, usage |-> u]
EvError == [type |-> "Error"]

(***************************************************************************)
(* process_stream (agent.rs 352-469).  ps is the record of its locals:     *)
(*   parts = msg.parts, the buffers current_*, finish_reason, usage,       *)
(*   emitted = the AgentEvents it sent on tx, status = where the call is.  *)
(***************************************************************************)
PsNew ==
    [parts |-> <<>>,
     current_text |-> "", current_thinking |-> "",
     current_tool_id |-> "", current_tool_name |-> "", current_tool_input |-> "",
     finish_reason |-> "end_turn", usage |-> DefaultUsage,
     emitted |-> <<>>,
     status |-> "streaming"]

\* "if !current_text.is_empty() { msg.parts.push(Text { take(current_text) }) }"
FlushText(st) ==
    IF st.current_text # ""
    THEN [st EXCEPT !.parts = Append(@, TextPart(st.current_text)),
                    !.current_text = ""]
    ELSE st

\* "if !current_thinking.is_empty() { msg.parts.push(Reasoning { take(..) }) }"
FlushThinking(st) ==
    IF st.current_thinking # ""
    THEN [st EXCEPT !.parts = Append(@, ReasoningPart(st.current_thinking)),
                    !.current_thinking = ""]
    ELSE st

\* "if !current_tool_name.is_empty() { msg.parts.push(ToolCall { take(id), .. }) }"
FlushToolCall(st) ==
    IF st.current_tool_name # ""
    THEN [st EXCEPT !.parts = Append(@, ToolCallPart(st.current_tool_id,
                                                      st.current_tool_name,
                                                      st.current_tool_input)),
                    !.current_tool_id = "",
                    !.current_tool_name = "",
                    !.current_tool_input = ""]
    ELSE st

OnContentDelta(st, ev) ==
    LET a == FlushThinking(st)
    IN  [a EXCEPT !.current_text = @ \o ev.text,
                  !.emitted = Append(@, [type |-> "ContentDelta", text |-> ev.text])]

OnContentStop(st) == FlushText(st)

OnThinkingDelta(st, ev) ==
    [st EXCEPT !.emitted = Append(@, [type |-> "ThinkingDelta", text |-> ev.text]),
               !.current_thinking = @ \o ev.text]

\* A variant that starts the new call without flushing the one in progress.
OnToolUseStart_NoFlush(st, ev) ==
    LET a == FlushThinking(FlushText(st))
    IN  [a EXCEPT !.current_tool_id = ev.id,
                  !.current_tool_name = ev.name,
                  !.current_tool_input = "",
                  !.emitted = Append(@, [type |-> "ToolCallInputDelta",
                                         id |-> ev.id, input_chunk |-> ""])]

OnToolUseStart(st, ev) ==
    LET a == FlushToolCall(FlushThinking(FlushText(st)))
    IN  [a EXCEPT !.current_tool_id = ev.id,
                  !.current_tool_name = ev.name,
                  !.current_tool_input = "",
                  !.emitted = Append(@, [type |-> "ToolCallInputDelta",
                                         id |-> ev.id, input_chunk |-> ""])]

OnToolUseDelta(st, ev) ==
    [st EXCEPT !.current_tool_input = @ \o ev.input_json_chunk]

\* A variant that pushes the call without the empty-name guard.
OnToolUseStop_Unguarded(st) ==
    [st EXCEPT !.parts = Append(@, ToolCallPart(st.current_tool_id,
                                                 st.current_tool_name,
                                                 st.current_tool_input)),
               !.current_tool_id = "",
               !.current_tool_name = "",
               !.current_tool_input = ""]

OnToolUseStop(st) == FlushToolCall(st)

\* A variant that also closes the message when Complete arrives.
OnComplete_AddsFinish(st, ev) ==
    [st EXCEPT !.finish_reason = ev.finish_reason, !.usage = ev.usage,
               !.parts = add_finish(@, ev.finish_reason)]

\* A variant that keeps the finish reason and drops the usage of the event.
OnComplete_NoUsage(st, ev) ==
    [st EXCEPT !.finish_reason = ev.finish_reason]

OnComplete(st, ev) ==
    [st EXCEPT !.finish_reason = ev.finish_reason, !.usage = ev.usage]

\* "return Err(OctoError::Provider(error))": no message is produced.
OnError(st) == [st EXCEPT !.status = "failed"]

\* One iteration of the loop body for "Some(event)" (agent.rs 376-450).
OnEvent(st, ev) ==
    CASE ev.type = "ContentDelta"  -> OnContentDelta(st, ev)
      [] ev.type = "ContentStop"   -> OnContentStop(st)
      [] ev.type = "ThinkingDelta" -> OnThinkingDelta(st, ev)
      [] ev.type = "ToolUseStart"  -> OnToolUseStart(st, ev)
      [] ev.type = "ToolUseDelta"  -> OnToolUseDelta(st, ev)
      [] ev.type = "ToolUseStop"   -> OnToolUseStop(st)
      [] ev.type = "Complete"      -> OnComplete(st, ev)
      [] ev.type = "Error"         -> OnError(st)
      [] ev.type = "ContentStart"  -> st

\* "None => break", then agent.rs 455-468: flush thinking, then text, add_finish.
OnStreamEnd(st) ==
    LET a == FlushThinking(st)
        b == FlushText(a)
    IN  [b EXCEPT !.parts = add_finish(@, st.finish_reason),
                  !.status = "returned"]

(***************************************************************************)
(* The adapter's retry loop: OpenAiProvider::stream_response, openai.rs    *)
(* 271-326, and compute_backoff, openai.rs 482-501.                        *)
(***************************************************************************)
MAX_RETRIES == 6
INITIAL_BACKOFF_MS == 2000
MAX_BACKOFF_MS == 60000

\* Option<T>: None is the empty sequence, Some(v) the one-element sequence.
None == <<>>
Some(v) == <<v>>

Min(a, b) == IF a <= b THEN a ELSE b
Max(a, b) == IF a >= b THEN a ELSE b

RECURSIVE Pow2(_)
Pow2(n) == IF n <= 0 THEN 1 ELSE 2 * Pow2(n - 1)

\* rand_f64() is (subsec_nanos % 1000) / 1000: one of 0/1000 .. 999/1000.  The
\* model draws the numerator r from these samples of 0..999.
JitterSamples == {0, 999}

\* A variant whose exponent is attempt instead of attempt - 1.
compute_backoff_NoSub(att, server_retry_ms, r) ==
    IF server_retry_ms # None THEN server_retry_ms[1]
    ELSE LET base == INITIAL_BACKOFF_MS * Pow2(att)
             capped == Min(base, MAX_BACKOFF_MS)
             jitter == (capped * r) \div 4000
         IN  capped + jitter

\* compute_backoff(attempt, server_retry_ms) with rand_f64() = r / 1000:
\* "(capped as f64 * 0.25 * rand_f64()) as u64" is floor(capped * r / 4000).
compute_backoff(att, server_retry_ms, r) ==
    IF server_retry_ms # None THEN server_retry_ms[1]
    ELSE LET base == INITIAL_BACKOFF_MS * Pow2(Max(att - 1, 0))
             capped == Min(base, MAX_BACKOFF_MS)
             jitter == (capped * r) \div 4000
         IN  capped + jitter

\* The Retry-After header values of the model: absent, two numbers of
\* seconds, and an HTTP date.
RetryAfterHeaders == {"absent", "1", "7", "Wed, 21 Oct 2026 07:28:00 GMT"}

\* ".and_then(|v| v.parse::<u64>().ok()).map(|secs| secs * 1000)"
retry_after_ms(header) ==
    CASE header = "1" -> Some(1 * 1000)
      [] header = "7" -> Some(7 * 1000)
      [] OTHER -> None

\* A variant of IsRetryStatus that retries after every status.
IsRetryStatus_Any(status) == TRUE

\* "status == 429 || status == 502 || status == 503"
IsRetryStatus(status) == status = 429 \/ status = 502 \/ status = 503

\* What one HTTP attempt can end in: a connection error, or a response.
ConnError == [kind |-> "conn_error"]
Response(status, header) ==
    [kind |-> "response", status |-> status, retry_after |-> header]
Outcomes ==
    {ConnError, Response(200, "absent"), Response(400, "absent"),
     Response(429, "absent"), Response(429, "1"), Response(503, "7"),
     Response(502, "Wed, 21 Oct 2026 07:28:00 GMT")}

RetryIdle ==
    /\ attempt = 0
    /\ last_err = [kind |-> "Http", message |-> "no attempts made"]
    /\ resp_ok = FALSE
    /\ slept = <<>>
    /\ responses = <<>>
    /\ rt_pc = "loop"

\* One iteration of "for attempt in 0..MAX_RETRIES" (openai.rs 274-324): the
\* backoff sleep when attempt > 0, the request, and what its outcome sets.
RetryAttempt ==
    /\ rt_pc = "loop"
    /\ attempt < MAX_RETRIES
    /\ \E r1 \in JitterSamples, r2 \in JitterSamples, out \in Outcomes :
        /\ slept' = IF attempt > 0
                    THEN Append(slept, compute_backoff(attempt, None, r1))
                    ELSE slept
        /\ responses' = Append(responses, out)
        /\ IF out.kind = "conn_error"
           THEN /\ last_err' = [kind |-> "Http", message |-> "send failed"]
                /\ attempt' = attempt + 1
                /\ UNCHANGED <<resp_ok, rt_pc>>
           ELSE IF out.status >= 200 /\ out.status <= 299
           THEN /\ resp_ok' = TRUE
                /\ rt_pc' = "ok"
                /\ UNCHANGED <<last_err, attempt>>
           ELSE IF IsRetryStatus(out.status)
           THEN /\ last_err' =
                     [kind |-> "RateLimited",
                      retry_after_ms |->
                          IF retry_after_ms(out.retry_after) # None
                          THEN retry_after_ms(out.retry_after)[1]
                          ELSE compute_backoff(attempt + 1, None, r2)]
                /\ attempt' = attempt + 1
                /\ UNCHANGED <<resp_ok, rt_pc>>
           ELSE /\ last_err' = [kind |-> "Api", status |-> out.status]
                /\ rt_pc' = "err"
                /\ UNCHANGED <<resp_ok, attempt>>
    /\ UNCHANGED nonRetryVars

\* "let resp = resp_ok.ok_or(last_err)?" after the loop ran out of attempts.
RetryExhausted ==
    /\ rt_pc = "loop"
    /\ attempt = MAX_RETRIES
    /\ rt_pc' = "err"
    /\ UNCHANGED <<attempt, last_err, resp_ok, slept, responses>>
    /\ UNCHANGED nonRetryVars

NextRetry == RetryAttempt \/ RetryExhausted

(***************************************************************************)
(* The permission services: CliPermissionService (permission_ui.rs) and    *)
(* TuiPermissionService (tui/permission.rs) with the TUI's event loop and  *)
(* key handler answering it (tui/mod.rs 210-215, 321-340).                 *)
(***************************************************************************)
Callers == {1, 2}
Sessions == {"s1", "s2"}
\* (tool_name, action) as the tools build them: edit.rs 103-104, bash.rs 124-125.
ToolActions == {<<"edit", "edit">>, <<"bash", "execute">>}

PermissionRequest(sid, ta) ==
    [session_id |-> sid, tool_name |-> ta[1], action |-> ta[2]]

Triple(req) == <<req.session_id, req.tool_name, req.action>>

\* format!("{}:{}:{}", req.session_id, req.tool_name, req.action)
approval_key(req) ==
    req.session_id \o ":" \o req.tool_name \o ":" \o req.action

\* The lines stdin may deliver to read_line ("" is end of input).
StdinLines == {"y\n", "Yes\n", "\n", "", "a\n", "ALWAYS\n", "n\n", "maybe\n"}

\* input.trim().to_lowercase()
trim_lower(line) ==
    CASE line = "y\n" -> "y"
      [] line = "Yes\n" -> "yes"
      [] line = "\n" -> ""
      [] line = "" -> ""
      [] line = "a\n" -> "a"
      [] line = "ALWAYS\n" -> "always"
      [] line = "n\n" -> "n"
      [] line = "maybe\n" -> "maybe"

\* The match of permission_ui.rs 58-66.
cli_decision(line) ==
    LET t == trim_lower(line)
    IN  IF t \in {"y", "yes", ""} THEN "Allow"
        ELSE IF t \in {"a", "always"} THEN "AllowPersistent"
        ELSE "Deny"

IdleCall ==
    [st |-> "idle", req |-> PermissionRequest("", <<"", "">>),
     after_auto |-> FALSE, after_always |-> FALSE,
     prompted |-> FALSE, answer |-> "", decision |-> ""]

\* A call that is entered now: what the history says about its request.
NewCall(req) ==
    [st |-> "waiting", req |-> req,
     after_auto |-> req.session_id \in auto_called,
     after_always |-> Triple(req) \in always_returned,
     prompted |-> FALSE, answer |-> "", decision |-> ""]

Returned(call, decision) == [call EXCEPT !.st = "returned", !.decision = decision]

PermIdle ==
    /\ perm_kind = "cli"
    /\ auto_approve_sessions = {}
    /\ persistent_approvals = {}
    /\ perm_chan = <<>>
    /\ pending_permission = None
    /\ tui_alive = TRUE
    /\ calls = [c \in Callers |-> IdleCall]
    /\ issued = 0
    /\ auto_called = {}
    /\ always_returned = {}

\* A variant that records the session among the persistent approvals.
auto_approve_insert_WrongSet(sid) ==
    /\ persistent_approvals' = persistent_approvals \cup {sid}
    /\ UNCHANGED auto_approve_sessions

\* "sessions.insert(session_id.to_string())"
auto_approve_insert(sid) ==
    /\ auto_approve_sessions' = auto_approve_sessions \cup {sid}
    /\ UNCHANGED persistent_approvals

\* auto_approve_session (permission_ui.rs 69-72, tui/permission.rs 74-77)
AutoApproveSession ==
    \E sid \in Sessions :
        /\ sid \notin auto_called
        /\ auto_approve_insert(sid)
        /\ auto_called' = auto_called \cup {sid}
        /\ UNCHANGED <<perm_kind, perm_chan, pending_permission, tui_alive, calls,
                       issued, always_returned>>
        /\ UNCHANGED nonPermVars

\* A variant that keys the persistent approvals by session and tool only.
persistent_contains_NoAction(req) ==
    \E k \in persistent_approvals :
        k = req.session_id \o ":" \o req.tool_name

\* "persistent.contains(&key)"
persistent_contains(req) == approval_key(req) \in persistent_approvals

\* The two look-ups every request() starts with (permission_ui.rs 27-42,
\* tui/permission.rs 34-49): TRUE when the request returns Allow at once.
short_circuit(req) ==
    \/ req.session_id \in auto_approve_sessions
    \/ persistent_contains(req)

\* CliPermissionService::request (permission_ui.rs 26-67): the look-ups, the
\* prompt and the blocking read_line, as one step.
CliRequest ==
    /\ perm_kind = "cli"
    /\ issued < MaxRequests
    /\ \E c \in Callers, sid \in Sessions, ta \in ToolActions :
        LET req == PermissionRequest(sid, ta)
            call == NewCall(req)
        IN  /\ calls[c].st # "waiting"
            /\ issued' = issued + 1
            /\ IF short_circuit(req)
               THEN /\ calls' = [calls EXCEPT ![c] = Returned(call, "Allow")]
                    /\ UNCHANGED <<persistent_approvals, always_returned>>
               ELSE \/ \* read_line fails
                       /\ calls' = [calls EXCEPT ![c] =
                              Returned([call EXCEPT !.prompted = TRUE], "Deny")]
                       /\ UNCHANGED <<persistent_approvals, always_returned>>
                    \/ \E line \in StdinLines :
                        LET d == cli_decision(line)
                        IN  /\ calls' = [calls EXCEPT ![c] =
                                   Returned([call EXCEPT !.prompted = TRUE,
                                                         !.answer = d], d)]
                            /\ persistent_approvals' =
                                   IF d = "AllowPersistent"
                                   THEN persistent_approvals \cup {approval_key(req)}
                                   ELSE persistent_approvals
                            /\ always_returned' =
                                   IF d = "AllowPersistent"
                                   THEN always_returned \cup {Triple(req)}
                                   ELSE always_returned
    /\ UNCHANGED <<perm_kind, auto_approve_sessions, perm_chan, pending_permission,
                   tui_alive, auto_called>>
    /\ UNCHANGED nonPermVars

\* TuiPermissionService::request up to "resp_rx.await" (tui/permission.rs
\* 33-61): the look-ups, then the send on the channel to the TUI.
TuiRequestBegin ==
    /\ perm_kind = "tui"
    /\ issued < MaxRequests
    /\ \E c \in Callers, sid \in Sessions, ta \in ToolActions :
        LET req == PermissionRequest(sid, ta)
            call == NewCall(req)
        IN  /\ calls[c].st # "waiting"
            /\ issued' = issued + 1
            /\ IF short_circuit(req)
               THEN /\ calls' = [calls EXCEPT ![c] = Returned(call, "Allow")]
                    /\ UNCHANGED perm_chan
               ELSE IF ~tui_alive
               THEN \* "self.tx.send(perm_req).await.is_err()"
                    /\ calls' = [calls EXCEPT ![c] = Returned(call, "Deny")]
                    /\ UNCHANGED perm_chan
               ELSE /\ calls' = [calls EXCEPT ![c] = [call EXCEPT !.prompted = TRUE]]
                    /\ perm_chan' = Append(perm_chan, c)
    /\ UNCHANGED <<perm_kind, auto_approve_sessions, persistent_approvals,
                   pending_permission, tui_alive, auto_called, always_returned>>
    /\ UNCHANGED nonPermVars

\* The TUI loop's "Some(perm) = app.perm_rx.recv(), if
\* app.pending_permission.is_none()" (tui/mod.rs 210-215).
TuiRecvPermission ==
    /\ perm_kind = "tui" /\ tui_alive
    /\ pending_permission = None
    /\ perm_chan # <<>>
    /\ pending_permission' = Some(Head(perm_chan))
    /\ perm_chan' = Tail(perm_chan)
    /\ UNCHANGED <<perm_kind, auto_approve_sessions, persistent_approvals, tui_alive,
                   calls, issued, auto_called, always_returned>>
    /\ UNCHANGED nonPermVars

\* handle_key_event with a permission dialog open (tui/mod.rs 323-339): the
\* key decides, the decision goes to the responder.
TuiAnswerPermission ==
    /\ perm_kind = "tui" /\ tui_alive
    /\ pending_permission # None
    /\ \E d \in {"Allow", "AllowPersistent", "Deny"} :
        calls' = [calls EXCEPT ![pending_permission[1]].answer = d]
    /\ pending_permission' = None
    /\ UNCHANGED <<perm_kind, auto_approve_sessions, persistent_approvals, perm_chan,
                   tui_alive, issued, auto_called, always_returned>>
    /\ UNCHANGED nonPermVars

\* The TUI ends (run_loop returns): perm_rx and any pending responder drop.
TuiQuit ==
    /\ perm_kind = "tui" /\ tui_alive
    /\ tui_alive' = FALSE
    /\ perm_chan' = <<>>
    /\ pending_permission' = None
    /\ UNCHANGED <<perm_kind, auto_approve_sessions, persistent_approvals, calls,
                   issued, auto_called, always_returned>>
    /\ UNCHANGED nonPermVars

\* TuiPermissionService::request from "match resp_rx.await" on
\* (tui/permission.rs 62-71).
TuiRequestResume ==
    /\ perm_kind = "tui"
    /\ \E c \in Callers :
        /\ calls[c].st = "waiting"
        /\ IF calls[c].answer # ""
           THEN \* Ok(decision)
                /\ calls' = [calls EXCEPT ![c] = Returned(@, calls[c].answer)]
                /\ persistent_approvals' =
                       IF calls[c].answer = "AllowPersistent"
                       THEN persistent_approvals \cup {approval_key(calls[c].req)}
                       ELSE persistent_approvals
                /\ always_returned' =
                       IF calls[c].answer = "AllowPersistent"
                       THEN always_returned \cup {Triple(calls[c].req)}
                       ELSE always_returned
           ELSE \* Err(_): the responder was dropped
                /\ ~tui_alive
                /\ calls' = [calls EXCEPT ![c] = Returned(@, "Deny")]
                /\ UNCHANGED <<persistent_approvals, always_returned>>
    /\ UNCHANGED <<perm_kind, auto_approve_sessions, perm_chan, pending_permission,
                   tui_alive, issued, auto_called>>
    /\ UNCHANGED nonPermVars

NextPerm ==
    \/ AutoApproveSession
    \/ CliRequest
    \/ TuiRequestBegin
    \/ TuiRecvPermission
    \/ TuiAnswerPermission
    \/ TuiQuit
    \/ TuiRequestResume

(***************************************************************************)
(* Messages (message.rs 72-124) and the token estimate and the trimming of *)
(* the history (agent.rs 102-177).                                         *)
(***************************************************************************)
\* Message::new_user / new_assistant / new_tool_result; id stands for the uuid.
new_user(id, text) == [id |-> id, role |-> "user", parts |-> <<TextPart(text)>>]
new_assistant(id) == [id |-> id, role |-> "assistant", parts |-> <<>>]
new_tool_result(id, results) == [id |-> id, role |-> "tool", parts |-> results]

\* estimate_tokens: "(text.len() as u64) / 4"
estimate_tokens(text) == Len(text) \div 4

\* One arm of the match in estimate_message_tokens.
PartTokens(part) ==
    CASE part.type = "text"        -> estimate_tokens(part.text)
      [] part.type = "reasoning"   -> estimate_tokens(part.text)
      [] part.type = "tool_call"   -> estimate_tokens(part.input) + 20
      [] part.type = "tool_result" -> estimate_tokens(part.content) + 10
      [] part.type = "finish"      -> 0

RECURSIVE SumPartTokens(_)
SumPartTokens(parts) ==
    IF parts = <<>> THEN 0
    ELSE PartTokens(Head(parts)) + SumPartTokens(Tail(parts))

\* estimate_message_tokens: "total.max(1)"
estimate_message_tokens(msg) == Max(SumPartTokens(msg.parts), 1)

RECURSIVE SumMessageTokens(_)
\* "messages.iter().map(|m| estimate_message_tokens(m)).sum()"
SumMessageTokens(msgs) ==
    IF msgs = <<>> THEN 0
    ELSE estimate_message_tokens(Head(msgs)) + SumMessageTokens(Tail(msgs))

RECURSIVE ScanRemoveEnd(_, _, _, _, _)
\* The loop "for i in keep_head..messages.len() - keep_tail" (agent.rs 163-172)
\* from index i (0-based) on: the value remove_end ends with.
ScanRemoveEnd(msgs, i, stop, current_tokens, max_message_tokens) ==
    IF i >= stop THEN i
    ELSE LET msg_tokens == estimate_message_tokens(msgs[i + 1])
         IN  IF current_tokens + msg_tokens > max_message_tokens
             THEN i
             ELSE ScanRemoveEnd(msgs, i + 1, stop, current_tokens + msg_tokens,
                                max_message_tokens)

\* trim_messages_to_fit with the number of tail messages it keeps as a parameter.
TrimKeeping(msgs, cw, system_prompt, tail) ==
    LET system_tokens == estimate_tokens(system_prompt) + 200
        max_message_tokens == (Max(cw - system_tokens, 0) * 3) \div 4
        total == SumMessageTokens(msgs)
        keep_tail == Min(tail, Len(msgs))
        keep_head == Min(1, Len(msgs))
        kept_tokens ==
            SumMessageTokens(SubSeq(msgs, 1, keep_head))
            + SumMessageTokens(SubSeq(msgs, Len(msgs) - keep_tail + 1, Len(msgs)))
        remove_end == ScanRemoveEnd(msgs, keep_head, Len(msgs) - keep_tail,
                                    kept_tokens, max_message_tokens)
    IN  IF total <= max_message_tokens THEN msgs
        ELSE IF Len(msgs) <= keep_head + keep_tail THEN msgs
        ELSE IF remove_end < Len(msgs) - keep_tail
        THEN SubSeq(msgs, 1, remove_end)
             \o SubSeq(msgs, Len(msgs) - keep_tail + 1, Len(msgs))
        ELSE msgs

\* A variant that keeps the last 3 messages only.
trim_messages_to_fit_Tail3(msgs, cw, system_prompt) ==
    TrimKeeping(msgs, cw, system_prompt, 3)

\* trim_messages_to_fit (agent.rs 139-177): "let keep_tail = 4.min(messages.len())"
trim_messages_to_fit(msgs, cw, system_prompt) ==
    TrimKeeping(msgs, cw, system_prompt, 4)

\* truncate_tool_result (agent.rs 103-114); the contents are ASCII, so
\* floor_char_boundary(max_chars) is max_chars.
truncate_tool_result(content, max_chars) ==
    IF Len(content) <= max_chars THEN content
    ELSE SubSeq(content, 1, max_chars)
         \o "\n\n... [truncated: " \o ToString(Len(content))
         \o " total chars, showing first " \o ToString(max_chars) \o "]"

\* format!("<tool_output tool=\"{}\">\n{}\n</tool_output>", call_name, truncated)
wrap_tool_output(call_name, truncated_content) ==
    "<tool_output tool=\"" \o call_name \o "\">\n" \o truncated_content
    \o "\n</tool_output>"

(***************************************************************************)
(* agent_loop (agent.rs 179-350) and the task Agent::run spawns around it  *)
(* (agent.rs 73-96).                                                       *)
(***************************************************************************)
SystemPrompt == "You are a coding agent."
SessionId == "s1"

\* The tool catalog: the names of "tools".
ToolCatalog == {"view", "bash"}

\* "tools.iter().find(|t| t.definition().name == call_name)" finds a tool.
find_tool_Any(call_name) == TRUE

find_tool(call_name) == call_name \in ToolCatalog

\* What tool.run returns: Ok(ToolResult::success(..)), Ok(ToolResult::error(..)),
\* or Err(ToolError) with its Display string.
ToolOutcomes ==
    {[ok |-> TRUE, content |-> "ok", is_error |-> FALSE],
     [ok |-> TRUE, content |-> "no match", is_error |-> TRUE],
     [ok |-> FALSE, content |-> "Permission denied: bash", is_error |-> TRUE]}

\* A variant of run_result that takes the error text as a success.
run_result_Success(res) == [content |-> res.content, is_error |-> FALSE]

\* "let result = match tool.run(..).await { Ok(r) => r,
\*  Err(e) => ToolResult::error(e.to_string()) }" (agent.rs 292-306).
run_result(res) ==
    IF res.ok THEN [content |-> res.content, is_error |-> res.is_error]
    ELSE [content |-> res.content, is_error |-> TRUE]

\* The ToolResult events of one tool run (agent.rs 295-317): one from the
\* Err arm, one from "if !result.is_error".
tool_result_events(call, res) ==
    LET ev(content, is_error) ==
            [type |-> "ToolResult", tool_call_id |-> call.id,
             tool_name |-> call.name, result |-> content, is_error |-> is_error]
    IN  (IF res.ok THEN <<>> ELSE <<ev(res.content, TRUE)>>)
        \o (IF run_result(res).is_error THEN <<>>
            ELSE <<ev(run_result(res).content, FALSE)>>)

\* The retry_after_ms of a ProviderError::RateLimited from stream_response:
\* a Retry-After of 2 s in odd rounds, the adapter's own capped backoff
\* (no header) in even rounds.
RateLimitedMs(r) == IF r % 2 = 1 THEN {2000} ELSE {60000}

\* A variant of loop_wait that does not grow with the attempt.
loop_wait_Flat(ms, att) == Max(ms, 5000)

\* "let wait = retry_after_ms.max(5_000) * (agent_attempt as u64 + 1)"
loop_wait(ms, att) == Max(ms, 5000) * (att + 1)

RoundTag(r) == ToString(r)

\* A reply with two tool calls, taken in the first round of a turn.
TwoCallStreams(r) ==
    IF r # 1 THEN {}
    ELSE { <<EvToolUseStart("call1a", "view"), EvToolUseDelta("{}"),
             EvToolUseStart("call1b", "bash"), EvToolUseDelta("{}"),
             EvToolUseStop, EvToolUseStop, EvComplete("tool_use", RoundUsage(r))>> }

\* The streams the provider may return in round r (tool-call ids are the
\* server's, unique per call).
Streams(r) ==
    LET c1 == "call" \o RoundTag(r) \o "a"
        c2 == "call" \o RoundTag(r) \o "b"
    IN  TwoCallStreams(r) \cup
        { <<EvContentStart, EvContentDelta("hello"), EvContentStop,
            EvComplete("end_turn", RoundUsage(r))>>,
          <<EvToolUseStart(c1, "view"), EvToolUseDelta("{}"), EvToolUseStop,
            EvComplete("tool_use", RoundUsage(r))>>,
          \* the server ends a tool-call message with finish_reason "stop"
          <<EvToolUseStart(c1, "view"), EvToolUseDelta("{}"), EvToolUseStop,
            EvComplete("end_turn", RoundUsage(r))>>,
          \* a tool that is not in the catalog, before one that is
          <<EvToolUseStart(c1, "nope"), EvToolUseStart(c2, "view"),
            EvToolUseStop, EvComplete("tool_use", RoundUsage(r))>>,
          <<EvContentStart, EvContentDelta("hel"), EvError>>,
          <<EvComplete("max_tokens", RoundUsage(r))>> }

\* The histories a driver may pass to Agent::run: a new session, or one
\* finished turn with a tool round.
PriorHistories ==
    { <<>>,
      << new_user("p1", "fix the build"),
         [id |-> "p2", role |-> "assistant",
          parts |-> <<ToolCallPart("call0a", "view", "{}"), FinishPart("tool_use")>>],
         new_tool_result("p3",
             <<ToolResultPart("call0a", wrap_tool_output("view", "ok"), FALSE)>>),
         [id |-> "p4", role |-> "assistant",
          parts |-> <<TextPart("done"), FinishPart("end_turn")>>] >> }

ContextWindows == {300, 340, 128000}

RECURSIVE FoldEvents(_, _)
\* The loop of process_stream over the events of a stream; an Error event
\* returns at once.
FoldEvents(st, evs) ==
    IF evs = <<>> \/ st.status # "streaming" THEN st
    ELSE FoldEvents(OnEvent(st, Head(evs)), Tail(evs))

\* process_stream on a whole stream: the locals when it returns.
process_stream(evs) ==
    LET st == FoldEvents(PsNew, evs)
    IN  IF st.status = "failed" THEN st ELSE OnStreamEnd(st)

LoopIdle ==
    /\ messages = <<>>
    /\ context_window = 128000
    /\ loop_pc = "start"
    /\ agent_attempt = 0
    /\ event_stream = <<>>
    /\ assistant_msg = new_assistant("")
    /\ tool_results = <<>>
    /\ tx_events = <<>>
    /\ cancelled = FALSE
    /\ rounds = 0
    /\ pre_trim = <<>>

\* The task of Agent::run when agent_loop returns Err(e): it sends Error.
TurnFails(error) ==
    /\ loop_pc' = "failed"
    /\ tx_events' = Append(tx_events, [type |-> "Error", error |-> error])

\* agent.rs 195-202: push the user message, send Started.
LoopStart ==
    /\ loop_pc = "start"
    /\ messages' = Append(messages, new_user("u", "hi"))
    /\ tx_events' = Append(tx_events, [type |-> "Started", session_id |-> SessionId])
    /\ loop_pc' = "top"
    /\ UNCHANGED <<context_window, agent_attempt, event_stream, assistant_msg,
                   tool_results, cancelled, rounds, pre_trim>>
    /\ UNCHANGED nonLoopVars

\* The head of "loop" (agent.rs 205-213): the cancel check, the trimming,
\* and the start of the retry block.
LoopTop ==
    /\ loop_pc = "top"
    /\ IF cancelled
       THEN /\ TurnFails("Cancelled")
            /\ UNCHANGED <<messages, agent_attempt, pre_trim>>
       ELSE /\ pre_trim' = messages
            /\ messages' = trim_messages_to_fit(messages, context_window, SystemPrompt)
            /\ agent_attempt' = 0
            /\ loop_pc' = "request"
            /\ UNCHANGED tx_events
    /\ UNCHANGED <<context_window, event_stream, assistant_msg, tool_results,
                   cancelled, rounds>>
    /\ UNCHANGED nonLoopVars

\* One pass of "for agent_attempt in 0..3u32" (agent.rs 214-239): the call
\* of provider.stream_response and the match on its result.
LoopRequest ==
    /\ loop_pc = "request"
    /\ rounds < MaxRounds
    /\ \/ \* Ok(stream) => break 'retry stream
          /\ \E evs \in Streams(rounds + 1) : event_stream' = evs
          /\ loop_pc' = "stream"
          /\ UNCHANGED <<agent_attempt, tx_events>>
       \/ \* Err(RateLimited { retry_after_ms })
          \E ms \in RateLimitedMs(rounds + 1) :
            LET wait == loop_wait(ms, agent_attempt)
                sent == Append(tx_events,
                               [type |-> "Error", error |-> "Rate limited",
                                wait |-> wait, attempt |-> agent_attempt + 1])
            IN  /\ agent_attempt' = agent_attempt + 1
                /\ IF agent_attempt + 1 < 3
                   THEN /\ tx_events' = sent
                        /\ UNCHANGED loop_pc
                   ELSE \* "return Err(OctoError::Provider(last_err.unwrap()))"
                        /\ tx_events' = Append(sent, [type |-> "Error",
                                                      error |-> "Provider"])
                        /\ loop_pc' = "failed"
                /\ UNCHANGED event_stream
       \/ \* Err(e) => return Err(OctoError::Provider(e))
          /\ TurnFails("Provider")
          /\ UNCHANGED <<agent_attempt, event_stream>>
    /\ UNCHANGED <<messages, context_window, assistant_msg, tool_results, cancelled,
                   rounds, pre_trim>>
    /\ UNCHANGED nonLoopVars

\* "match finish_reason": TRUE for the arm FinishReason::ToolUse.
dispatches(finish_reason) == finish_reason = "tool_use"

\* agent.rs 242-257 and 338-347: process_stream, the push of the assistant
\* message, and the arms of the match that end the turn.
LoopStream ==
    /\ loop_pc = "stream"
    /\ LET st == process_stream(event_stream)
           msg == [id |-> "a" \o RoundTag(rounds + 1), role |-> "assistant",
                   parts |-> st.parts]
       IN  IF cancelled
           THEN \* "_ = cancel.cancelled() => return Err(OctoError::Cancelled)"
                /\ TurnFails("Cancelled")
                /\ UNCHANGED <<messages, assistant_msg, tool_results>>
           ELSE IF st.status = "failed"
           THEN /\ tx_events' = (tx_events \o st.emitted)
                                \o <<[type |-> "Error", error |-> "Provider"]>>
                /\ loop_pc' = "failed"
                /\ UNCHANGED <<messages, assistant_msg, tool_results>>
           ELSE /\ messages' = Append(messages, msg)
                /\ assistant_msg' = msg
                /\ tool_results' = <<>>
                /\ IF dispatches(st.finish_reason)
                   THEN /\ loop_pc' = "dispatch"
                        /\ tx_events' = tx_events \o st.emitted
                   ELSE /\ loop_pc' = "done"
                        /\ tx_events' = (tx_events \o st.emitted)
                               \o <<[type |-> "Complete", message |-> msg,
                                     finish_reason |-> st.finish_reason,
                                     usage |-> st.usage]>>
    /\ rounds' = rounds + 1
    /\ event_stream' = <<>>
    /\ UNCHANGED <<context_window, agent_attempt, cancelled, pre_trim>>
    /\ UNCHANGED nonLoopVars

\* One pass of "for (call_id, call_name, call_input) in tool_calls"
\* (agent.rs 262-333).
LoopToolCall ==
    /\ loop_pc = "dispatch"
    /\ Len(tool_results) < Len(tool_calls(assistant_msg.parts))
    /\ LET call == tool_calls(assistant_msg.parts)[Len(tool_results) + 1]
       IN  IF cancelled
           THEN /\ TurnFails("Cancelled")
                /\ UNCHANGED tool_results
           ELSE IF ~find_tool(call.name)
           THEN /\ TurnFails("Tool not found")
                /\ UNCHANGED tool_results
           ELSE \E res \in ToolOutcomes :
                /\ tx_events' = (tx_events \o
                       << [type |-> "ToolCallStart", id |-> call.id,
                           name |-> call.name] >>) \o tool_result_events(call, res)
                /\ tool_results' = Append(tool_results,
                       ToolResultPart(call.id,
                           wrap_tool_output(call.name,
                               truncate_tool_result(run_result(res).content, 30000)),
                           run_result(res).is_error))
                /\ UNCHANGED loop_pc
    /\ UNCHANGED <<messages, context_window, agent_attempt, event_stream,
                   assistant_msg, cancelled, rounds, pre_trim>>
    /\ UNCHANGED nonLoopVars

\* agent.rs 335-336: the tool message, then the next pass of "loop".
LoopToolsDone ==
    /\ loop_pc = "dispatch"
    /\ Len(tool_results) = Len(tool_calls(assistant_msg.parts))
    /\ messages' = Append(messages,
                          new_tool_result("t" \o RoundTag(rounds), tool_results))
    /\ loop_pc' = "top"
    /\ UNCHANGED <<context_window, agent_attempt, event_stream, assistant_msg,
                   tool_results, tx_events, cancelled, rounds, pre_trim>>
    /\ UNCHANGED nonLoopVars

\* The holder of the CancellationToken cancels the turn.
Cancel ==
    /\ loop_pc \notin {"done", "failed"}
    /\ ~cancelled
    /\ cancelled' = TRUE
    /\ UNCHANGED <<messages, context_window, loop_pc, agent_attempt, event_stream,
                   assistant_msg, tool_results, tx_events, rounds, pre_trim>>
    /\ UNCHANGED nonLoopVars

NextLoop ==
    \/ LoopStart
    \/ LoopTop
    \/ LoopRequest
    \/ LoopStream
    \/ LoopToolCall
    \/ LoopToolsDone
    \/ Cancel

(***************************************************************************)
(* The SSE decoder of OpenAiProvider::stream_response (openai.rs 330-470)  *)
(* and parse_openai_response (openai.rs 503-550).                          *)
(* A "data:" payload is modelled by the one thing of a choice it carries:  *)
(*   delta.content, one element of delta.tool_calls, or finish_reason      *)
(*   (with the usage object of the same payload, when present).            *)
(***************************************************************************)
SseContent(text) == [kind |-> "content", text |-> text]
SseToolCall(index, id, name, arguments) ==
    [kind |-> "tool_call", index |-> index, id |-> id, name |-> name,
     arguments |-> arguments]
SseFinish(reason, usage) ==
    [kind |-> "finish", finish_reason |-> reason, usage |-> usage]

\* The finish_reason strings of the wire, one of them unknown to the adapter.
WireFinishReasons == {"stop", "length", "tool_calls", "content_filter"}

\* The "usage" object of a payload: absent, or prompt/completion token counts.
WireUsages == {None, Some([prompt_tokens |-> 10, completion_tokens |-> 5])}

\* "let finish = match reason { .. }" of the stream decoder (openai.rs 440-445).
stream_finish(reason) ==
    CASE reason = "stop"       -> "end_turn"
      [] reason = "length"     -> "max_tokens"
      [] reason = "tool_calls" -> "tool_use"
      [] OTHER                 -> "end_turn"

\* "let usage = if let Some(u) = json.get("usage") { .. } else { default }"
stream_usage(usage) ==
    IF usage # None
    THEN [input_tokens |-> usage[1].prompt_tokens,
          output_tokens |-> usage[1].completion_tokens]
    ELSE DefaultUsage

\* "current_tool_calls.insert(index, (id, name))"
tool_calls_insert(m, index, id, name) ==
    [i \in DOMAIN m \cup {index} |-> IF i = index THEN <<id, name>> ELSE m[i]]

NoToolCalls == [i \in {} |-> <<>>]

\* The events one payload makes the decoder yield (openai.rs 371-467), and
\* the decoder's locals after it.
DecodeContent(hc, ch) ==
    [events |-> (IF ~hc THEN <<EvContentStart>> ELSE <<>>)
                    \o <<EvContentDelta(ch.text)>>,
     has_content |-> TRUE]

DecodeToolCall(hc, m, ch) ==
    LET registers == ch.name # "" /\ ch.index \notin DOMAIN m
        start == IF registers
                 THEN (IF hc THEN <<EvContentStop>> ELSE <<>>)
                          \o <<EvToolUseStart(ch.id, ch.name)>>
                 ELSE <<>>
        delta == IF ch.arguments # ""
                 THEN <<EvToolUseDelta(ch.arguments)>>
                 ELSE <<>>
    IN  [events |-> start \o delta,
         has_content |-> IF registers THEN FALSE ELSE hc,
         current_tool_calls |->
             IF registers THEN tool_calls_insert(m, ch.index, ch.id, ch.name)
             ELSE m]

DecodeFinish(hc, m, ch) ==
    [events |-> (IF hc THEN <<EvContentStop>> ELSE <<>>)
                    \o [i \in 1..Cardinality(DOMAIN m) |-> EvToolUseStop]
                    \o <<EvComplete(stream_finish(ch.finish_reason),
                                    stream_usage(ch.usage))>>,
     has_content |-> FALSE,
     current_tool_calls |-> NoToolCalls]

\* parse_openai_response (openai.rs 503-550) on the message of a one-shot
\* response: content is None (null) or Some(string), each tool call has an
\* id, a name and Some(arguments) or None.
parse_finish(reason) ==
    CASE reason = "stop"       -> "end_turn"
      [] reason = "length"     -> "max_tokens"
      [] reason = "tool_calls" -> "tool_use"
      [] OTHER                 -> "end_turn"

parse_openai_response(resp) ==
    [content |->
        (IF resp.content # None THEN <<TextPart(resp.content[1])>> ELSE <<>>)
        \o [i \in 1..Len(resp.tool_calls) |->
               ToolCallPart(resp.tool_calls[i].id, resp.tool_calls[i].name,
                            IF resp.tool_calls[i].arguments # None
                            THEN resp.tool_calls[i].arguments[1] ELSE "{}")],
     finish_reason |-> parse_finish(resp.finish_reason),
     usage |-> IF resp.usage # None
               THEN [input_tokens |-> resp.usage[1].prompt_tokens,
                     output_tokens |-> resp.usage[1].completion_tokens]
               ELSE DefaultUsage]

DecodeIdle ==
    /\ sse_in = <<>>
    /\ has_content = FALSE
    /\ current_tool_calls = NoToolCalls

IsSseFinish(ch) == ch.kind = "finish"
SseFinished == SelectSeq(sse_in, IsSseFinish) # <<>>

\* The payloads a server streams for one response: text pieces, tool calls
\* opened in index order (id and name in the first piece, an empty name in
\* the later ones, in any interleaving of the indices), pieces of an index
\* that was never opened, and one finish.
SseTexts == {"", "a"}
SseArguments == {"", "x"}
SseToolNames == {"view"}
SseCallId(index) == "call_" \o ToString(index)

\* An index no payload registers: its pieces all come with an empty name.
UnregisteredIndex == MaxSse

\* One payload before the finish is decoded; process_stream consumes the
\* events it yields.
SsePayload ==
    /\ ps.status = "streaming"
    /\ ~SseFinished
    /\ Len(sse_in) < MaxSse
    /\ \E ch \in {SseContent(t) : t \in SseTexts}
                 \cup {SseToolCall(Cardinality(DOMAIN current_tool_calls),
                                   SseCallId(Cardinality(DOMAIN current_tool_calls)),
                                   n, a) : n \in SseToolNames, a \in SseArguments}
                 \cup {SseToolCall(i, "", "", "x") : i \in DOMAIN current_tool_calls}
                 \cup {SseToolCall(UnregisteredIndex, "", "", "x")} :
        LET d == IF ch.kind = "content"
                 THEN DecodeContent(has_content, ch)
                          @@ [current_tool_calls |-> current_tool_calls]
                 ELSE DecodeToolCall(has_content, current_tool_calls, ch)
        IN  /\ sse_in' = Append(sse_in, ch)
            /\ has_content' = d.has_content
            /\ current_tool_calls' = d.current_tool_calls
            /\ stream_in' = stream_in \o d.events
            /\ ps' = FoldEvents(ps, d.events)
    /\ UNCHANGED nonDecodeVars

\* A "data: " line that is neither [DONE] nor valid JSON.
SseMalformed == [kind |-> "malformed"]

\* "Err(_) => continue" (openai.rs 365-368): the line is dropped, no event is
\* yielded, and the decoder reads on.
SseMalformedPayload ==
    /\ ps.status = "streaming"
    /\ ~SseFinished
    /\ Len(sse_in) < MaxSse
    /\ sse_in' = Append(sse_in, SseMalformed)
    /\ UNCHANGED <<has_content, current_tool_calls, streamVars>>
    /\ UNCHANGED nonDecodeVars

\* The payload with finish_reason.
SseFinishPayload ==
    /\ ps.status = "streaming"
    /\ ~SseFinished
    /\ \E r \in WireFinishReasons, u \in WireUsages :
        LET d == DecodeFinish(has_content, current_tool_calls, SseFinish(r, u))
        IN  /\ sse_in' = Append(sse_in, SseFinish(r, u))
            /\ has_content' = d.has_content
            /\ current_tool_calls' = d.current_tool_calls
            /\ stream_in' = stream_in \o d.events
            /\ ps' = FoldEvents(ps, d.events)
    /\ UNCHANGED nonDecodeVars

\* "data: [DONE]" and the end of the byte stream: the decoder's stream ends
\* and process_stream returns.
SseDone ==
    /\ ps.status = "streaming"
    /\ SseFinished
    /\ ps' = OnStreamEnd(ps)
    /\ UNCHANGED <<stream_in, decodeVars>>
    /\ UNCHANGED nonDecodeVars

NextDecode == SsePayload \/ SseMalformedPayload \/ SseFinishPayload \/ SseDone

(***************************************************************************)
(* The TUI driver's session bookkeeping (tui/mod.rs) over the sessions     *)
(* table (storage/session_repo.rs).  Cost is counted in 1e-8 dollars.      *)
(***************************************************************************)
\* core/session.rs, struct Session (the fields the driver touches).
SessionRow(id, message_count, prompt_tokens, completion_tokens, cost) ==
    [id |-> id, message_count |-> message_count, prompt_tokens |-> prompt_tokens,
     completion_tokens |-> completion_tokens, cost |-> cost]

\* Session::new
NewSession(id) == SessionRow(id, 0, 0, 0, 0)

\* Model::calculate_cost with the pricing 0.80 / 2.56 dollars per 1M tokens.
calculate_cost(input_tokens, output_tokens) ==
    input_tokens * 80 + output_tokens * 256

\* The usage a Complete event may report.
TurnUsages == {[input_tokens |-> 10, output_tokens |-> 5],
               [input_tokens |-> 7, output_tokens |-> 0]}

\* Ids of the sessions created during the run (uuids in the code).
FreshSessionIds == <<"n1", "n2">>
FreshCount == Cardinality(DOMAIN db_sessions \cap {"n1", "n2"})

\* SessionRepo::create
db_create(db, row) ==
    [i \in DOMAIN db \cup {row.id} |-> IF i = row.id THEN row ELSE db[i]]

\* SessionRepo::update: "UPDATE sessions SET .. WHERE id = ?"
db_update(db, row) ==
    [i \in DOMAIN db |-> IF i = row.id THEN row ELSE db[i]]

\* TuiApp::new
TuiAppNew(session) ==
    [running |-> TRUE, session |-> session, total_tokens |-> <<0, 0>>,
     total_cost |-> 0, is_streaming |-> FALSE]

\* persist_session (tui/mod.rs 603-615): the row it writes.
persist_row(session, tokens, cost) ==
    [session EXCEPT !.prompt_tokens = tokens[1],
                    !.completion_tokens = tokens[2],
                    !.cost = cost,
                    !.message_count = @ + 1]

\* Before the TUI starts: two sessions of earlier runs in the table.
TuiIdle ==
    /\ db_sessions = [i \in {"s1", "s2"} |->
                         IF i = "s1" THEN SessionRow("s1", 2, 40, 20, 8320)
                         ELSE SessionRow("s2", 1, 10, 5, 2080)]
    /\ tui_app = [running |-> FALSE, session |-> NewSession(""),
                  total_tokens |-> <<0, 0>>, total_cost |-> 0,
                  is_streaming |-> FALSE]
    /\ turns = 0
    /\ last_complete = None

\* tui::run (tui/mod.rs 143-179): resume a stored session or create one.
TuiRun ==
    /\ ~tui_app.running
    /\ \/ \E id \in DOMAIN db_sessions :
            /\ tui_app' = TuiAppNew(db_sessions[id])
            /\ UNCHANGED db_sessions
       \/ LET s == NewSession(FreshSessionIds[FreshCount + 1])
          IN  /\ db_sessions' = db_create(db_sessions, s)
              /\ tui_app' = TuiAppNew(s)
    /\ UNCHANGED <<turns, last_complete>>
    /\ UNCHANGED nonTuiVars

\* submit_message (tui/mod.rs 506-516)
SubmitMessage ==
    /\ tui_app.running /\ ~tui_app.is_streaming
    /\ turns < MaxTurns
    /\ tui_app' = [tui_app EXCEPT !.is_streaming = TRUE]
    /\ turns' = turns + 1
    /\ UNCHANGED <<db_sessions, last_complete>>
    /\ UNCHANGED nonTuiVars

\* The AgentEvent::Complete arm of handle_agent_event (tui/mod.rs 285-303),
\* with the persist_session call that ends it.
CompleteArm ==
    /\ tui_app.running /\ tui_app.is_streaming
    /\ \E usage \in TurnUsages :
        LET tokens == <<tui_app.total_tokens[1] + usage.input_tokens,
                        tui_app.total_tokens[2] + usage.output_tokens>>
            cost == tui_app.total_cost
                        + calculate_cost(usage.input_tokens, usage.output_tokens)
        IN  /\ tui_app' = [tui_app EXCEPT !.total_tokens = tokens,
                                          !.total_cost = cost,
                                          !.is_streaming = FALSE]
            /\ db_sessions' =
                   db_update(db_sessions, persist_row(tui_app.session, tokens, cost))
            /\ last_complete' = Some([session_id |-> tui_app.session.id,
                                      usage |-> usage,
                                      before |-> db_sessions[tui_app.session.id]])
    /\ UNCHANGED turns

HandleComplete == CompleteArm /\ UNCHANGED nonTuiVars

\* handle_agent_event, AgentEvent::Error (tui/mod.rs 304-313), and Ctrl-C
\* while streaming (tui/mod.rs 390-398): the turn ends without a Complete.
HandleErrorOrCancel ==
    /\ tui_app.running /\ tui_app.is_streaming
    /\ tui_app' = [tui_app EXCEPT !.is_streaming = FALSE]
    /\ UNCHANGED <<db_sessions, turns, last_complete>>
    /\ UNCHANGED nonTuiVars

\* switch_session (tui/mod.rs 536-562), reached from the session dialog, which
\* opens only while no turn is streaming.
switch_session ==
    /\ tui_app.running /\ ~tui_app.is_streaming
    /\ \E id \in DOMAIN db_sessions :
        /\ id # tui_app.session.id
        /\ tui_app' = [tui_app EXCEPT !.session = db_sessions[id]]
    /\ UNCHANGED <<db_sessions, turns, last_complete>>
    /\ UNCHANGED nonTuiVars

\* create_new_session (tui/mod.rs 564-575)
create_new_session ==
    /\ tui_app.running /\ ~tui_app.is_streaming
    /\ FreshCount < Len(FreshSessionIds)
    /\ LET s == NewSession(FreshSessionIds[FreshCount + 1])
       IN  /\ db_sessions' = db_create(db_sessions, s)
           /\ tui_app' = [tui_app EXCEPT !.session = s,
                                         !.total_tokens = <<0, 0>>,
                                         !.total_cost = 0]
    /\ UNCHANGED <<turns, last_complete>>
    /\ UNCHANGED nonTuiVars

NextTui ==
    \/ TuiRun
    \/ SubmitMessage
    \/ HandleComplete
    \/ HandleErrorOrCancel
    \/ switch_session
    \/ create_new_session

(***************************************************************************)
(* The task tools (octo-tools/src/task_mgmt.rs) over the task files of a   *)
(* team (core/team.rs).  One tool run is one action: the tools of a turn   *)
(* run one after the other.                                                *)
(***************************************************************************)
\* core/team.rs, struct TaskItem (id, subject, status, blocked_by).
TaskItem(id, subject, status, blocked_by) ==
    [id |-> id, subject |-> subject, status |-> status, blocked_by |-> blocked_by]

\* "if !task.blocked_by.contains(&id) { task.blocked_by.push(id) }"
push_unique(list, id) ==
    IF \E i \in 1..Len(list) : list[i] = id THEN list ELSE Append(list, id)

\* A variant of retain_other that leaves the list as it is.
retain_other_Keep(list, id) == list

\* "other.blocked_by.retain(|id| id != &task.id)"
retain_other(list, id) ==
    LET keeps(x) == x # id IN SelectSeq(list, keeps)

\* team::write_task
write_task(files, task) ==
    [i \in DOMAIN files \cup {task.id} |-> IF i = task.id THEN task ELSE files[i]]

\* team::delete_task
delete_task(files, id) == [i \in DOMAIN files \ {id} |-> files[i]]

\* The auto-unblock loop of TaskUpdateTool::run (task_mgmt.rs 327-338): every
\* other task that lists the completed one is rewritten without it.
auto_unblock(files, task) ==
    [i \in DOMAIN files |->
        IF i # task.id /\ (\E k \in 1..Len(files[i].blocked_by) :
                               files[i].blocked_by[k] = task.id)
        THEN [files[i] EXCEPT !.blocked_by = retain_other(@, task.id)]
        ELSE files[i]]

\* The status strings a task_update call may carry (None: no "status" key).
StatusParams ==
    {None, Some("pending"), Some("in_progress"), Some("completed"),
     Some("deleted"), Some("done")}

TaskIds == 1..MaxTasks

TaskIdle ==
    /\ task_files = [i \in {} |-> <<>>]
    /\ task_counter = 1
    /\ last_task_op = None

\* TaskCreateTool::run (task_mgmt.rs 68-107) with team::next_task_id.
TaskCreate ==
    /\ task_counter <= MaxTasks
    /\ LET task == TaskItem(task_counter, "subject", "pending", <<>>)
       IN  /\ task_files' = write_task(task_files, task)
           /\ task_counter' = task_counter + 1
           /\ last_task_op' = Some([tool |-> "task_create", task_id |-> task.id,
                                    status |-> None, ok |-> TRUE,
                                    before |-> task_files])
    /\ UNCHANGED nonTaskVars

\* TaskUpdateTool::run (task_mgmt.rs 259-343) for a call with task_id, an
\* optional status and an optional add_blocked_by of one id (the first task
\* or the task itself).
TaskUpdate ==
    /\ \E id \in TaskIds, status \in StatusParams :
       \E add \in {None} \cup {Some(b) : b \in {1, id}} :
        LET op(ok) == Some([tool |-> "task_update", task_id |-> id,
                            status |-> status, ok |-> ok,
                            before |-> task_files])
        IN  IF status = Some("deleted")
            THEN /\ task_files' = delete_task(task_files, id)
                 /\ last_task_op' = op(TRUE)
            ELSE IF id \notin DOMAIN task_files
            THEN \* "task not found"
                 /\ last_task_op' = op(FALSE)
                 /\ UNCHANGED task_files
            ELSE IF status # None
                    /\ status[1] \notin {"pending", "in_progress", "completed"}
            THEN \* "invalid status"
                 /\ last_task_op' = op(FALSE)
                 /\ UNCHANGED task_files
            ELSE LET old == task_files[id]
                     a == IF status # None THEN [old EXCEPT !.status = status[1]]
                          ELSE old
                     task == IF add # None
                             THEN [a EXCEPT !.blocked_by = push_unique(@, add[1])]
                             ELSE a
                     written == write_task(task_files, task)
                 IN  /\ task_files' = IF task.status = "completed"
                                      THEN auto_unblock(written, task)
                                      ELSE written
                     /\ last_task_op' = op(TRUE)
    /\ UNCHANGED task_counter
    /\ UNCHANGED nonTaskVars

\* TaskGetTool::run (task_mgmt.rs 145-160): reads, changes nothing.
TaskGet ==
    /\ \E id \in TaskIds :
        last_task_op' = Some([tool |-> "task_get", task_id |-> id,
                              status |-> None, ok |-> id \in DOMAIN task_files,
                              before |-> task_files])
    /\ UNCHANGED <<task_files, task_counter>>
    /\ UNCHANGED nonTaskVars

NextTask == TaskCreate \/ TaskUpdate \/ TaskGet

(***************************************************************************)
(* BashTool::run (tools/bash.rs 98-185) with its two lists.                *)
(***************************************************************************)
SAFE_PREFIXES ==
    {"ls", "cat", "head", "tail", "wc", "find", "which", "whoami", "pwd", "date",
     "echo", "git status", "git log", "git diff", "git branch", "git show",
     "cargo check", "cargo test", "cargo clippy", "cargo fmt --check",
     "rustc --version", "cargo --version", "node --version", "python --version"}

DANGEROUS_PATTERNS ==
    {"rm -rf /", "rm -rf /*", "rm -rf ~", "dd if=/dev", "mkfs.", "> /dev/sda",
     "chmod 777 /", "chmod -R 777 /", ":(){ :|:& };:", "wget -O- | sh",
     "curl | sh", "curl | bash", "wget -O- | bash", "shutdown", "reboot",
     "init 0", "init 6", "kill -9 1", "killall", "pkill -9"}

UpperLetters == "ABCDEFGHIJKLMNOPQRSTUVWXYZ"
LowerLetters == "abcdefghijklmnopqrstuvwxyz"

\* char::to_lowercase on the ASCII letters.
LowerChar(c) ==
    IF \E i \in 1..26 : SubSeq(UpperLetters, i, i) = c
    THEN LET i == CHOOSE i \in 1..26 : SubSeq(UpperLetters, i, i) = c
         IN  SubSeq(LowerLetters, i, i)
    ELSE c

RECURSIVE to_lowercase(_)
\* str::to_lowercase
to_lowercase(s) ==
    IF s = "" THEN ""
    ELSE LowerChar(SubSeq(s, 1, 1)) \o to_lowercase(SubSeq(s, 2, Len(s)))

IsWhitespace(c) == c \in {" ", "\t", "\n"}

RECURSIVE trim_start(_)
trim_start(s) ==
    IF s # "" /\ IsWhitespace(SubSeq(s, 1, 1))
    THEN trim_start(SubSeq(s, 2, Len(s))) ELSE s

RECURSIVE trim_end(_)
trim_end(s) ==
    IF s # "" /\ IsWhitespace(SubSeq(s, Len(s), Len(s)))
    THEN trim_end(SubSeq(s, 1, Len(s) - 1)) ELSE s

\* str::trim
trim(s) == trim_end(trim_start(s))

\* str::starts_with
starts_with(s, prefix) ==
    Len(prefix) <= Len(s) /\ SubSeq(s, 1, Len(prefix)) = prefix

\* str::contains
contains(s, pat) ==
    \E i \in 1..(Len(s) - Len(pat) + 1) : SubSeq(s, i, i + Len(pat) - 1) = pat

\* BashTool::is_safe_command (bash.rs 54-59)
is_safe_command(command) ==
    LET trimmed == trim(command)
    IN  \E safe \in SAFE_PREFIXES : starts_with(trimmed, safe)

\* BashTool::is_dangerous_command (bash.rs 61-64)
is_dangerous_command(command) ==
    LET lower == to_lowercase(command)
    IN  \E pat \in DANGEROUS_PATTERNS : contains(lower, pat)

\* The commands the model may ask for.
BashCommands ==
    {"ls -la", "  echo hi", "lsof -i", "make build", "rm -rf /", "RM -RF ~",
     "cat notes; shutdown now", "curl | sh", "wget -O- | sh"}

\* The commands is_dangerous_command and is_safe_command hold for.
DangerousCommands == {c \in BashCommands : is_dangerous_command(c)}
SafeCommands == {c \in BashCommands : is_safe_command(c)}

PermissionDecisions == {"Allow", "AllowPersistent", "Deny"}

\* What the spawned bash ends in: exit status 0, another exit status, the
\* timeout, or a spawn error.
BashExits == {"success", "exit_code", "Timeout", "ExecutionFailed"}

BashIdle == last_bash = None

\* BashTool::run for a call whose input parses and holds "command".  answer
\* is what the operator gives when permission_service.request prompts.
BashRun ==
    /\ \E command \in BashCommands :
        LET dangerous == command \in DangerousCommands
            safe == command \in SafeCommands
        IN  \E sid \in Sessions, answer \in PermissionDecisions, exit \in BashExits :
            LET req == PermissionRequest(sid, <<"bash", "execute">>)
                decision == IF short_circuit(req) THEN "Allow" ELSE answer
                run(consulted, dec, executed, result) ==
                    Some([command |-> command, session_id |-> sid,
                          answer |-> answer, approved |-> short_circuit(req),
                          consulted |-> consulted, decision |-> dec,
                          executed |-> executed, result |-> result])
            IN  IF dangerous
                THEN /\ last_bash' = run(FALSE, "", FALSE, "PermissionDenied")
                     /\ UNCHANGED <<persistent_approvals, always_returned>>
                ELSE IF ~safe
                THEN /\ last_bash' =
                            IF decision = "Deny"
                            THEN run(TRUE, decision, FALSE, "PermissionDenied")
                            ELSE run(TRUE, decision, TRUE, exit)
                     /\ persistent_approvals' =
                            IF decision = "AllowPersistent"
                            THEN persistent_approvals \cup {approval_key(req)}
                            ELSE persistent_approvals
                     /\ always_returned' =
                            IF decision = "AllowPersistent"
                            THEN always_returned \cup {Triple(req)}
                            ELSE always_returned
                ELSE /\ last_bash' = run(FALSE, "", TRUE, exit)
                     /\ UNCHANGED <<persistent_approvals, always_returned>>
    /\ UNCHANGED <<perm_kind, auto_approve_sessions, perm_chan, pending_permission,
                   tui_alive, calls, issued, auto_called>>
    /\ UNCHANGED nonBashVars

NextBash == BashRun \/ AutoApproveSession

(***************************************************************************)
(* The team tools (tools/team.rs): team_create, spawn_agent, team_delete,  *)
(* and the member side of a shutdown (send_message.rs 175-205), over the   *)
(* directories teams/<team> and tasks/<team> of one base directory.        *)
(***************************************************************************)
TeamNames == {"alpha", "beta"}
WorkerNames == {"w1", "w2"}

\* core/team.rs, struct TeamConfig (name, lead, members by name).
TeamConfig(name, lead, members) ==
    [name |-> name, lead |-> lead, members |-> members]

\* core/team.rs, TeamState::new(team_name, agent_name, is_lead)
TeamState(team_name, agent_name) ==
    [team_name |-> team_name, agent_name |-> agent_name]

\* A variant of has_other_members that never finds one.
has_other_members_Never(config) == FALSE

\* "config.members.len() > 1" (tools/team.rs 176)
has_other_members(config) == Len(config.members) > 1

\* std::fs::remove_dir_all on teams/<team>
remove_team_dir(dirs, team) == [t \in DOMAIN dirs \ {team} |-> dirs[t]]

TeamSnapshot ==
    [team_state |-> team_state, team_dirs |-> team_dirs, tasks_dirs |-> tasks_dirs]

TeamOp(tool, result) ==
    Some([tool |-> tool, result |-> result, before |-> TeamSnapshot])

TeamIdle ==
    /\ team_state = None
    /\ team_dirs = [t \in {} |-> <<>>]
    /\ tasks_dirs = {}
    /\ last_team_op = None

\* TeamCreateTool::run (tools/team.rs 73-142)
TeamCreate ==
    /\ \E team_name \in TeamNames :
        LET agent_name == IF team_state = None THEN "team-lead"
                          ELSE team_state[1].agent_name
            config == TeamConfig(team_name, agent_name, <<agent_name>>)
        IN  /\ team_dirs' = [t \in DOMAIN team_dirs \cup {team_name} |->
                                IF t = team_name THEN config ELSE team_dirs[t]]
            /\ tasks_dirs' = tasks_dirs \cup {team_name}
            /\ team_state' = Some(TeamState(team_name, agent_name))
            /\ last_team_op' = TeamOp("team_create", "success")
    /\ UNCHANGED nonTeamVars

\* A variant of member_exists that never finds the name.
member_exists_Never(config, name) == FALSE

\* "config.members.iter().any(|m| m.name == name)" (tools/team.rs 296)
member_exists(config, name) ==
    \E i \in 1..Len(config.members) : config.members[i] = name

\* The names spawn_agent is called with: the workers' and the lead's own.
SpawnNames == WorkerNames \cup {"team-lead"}

\* What the fork of the child ends in (tools/team.rs 326-342): the child runs,
\* current_exe fails, or Command::spawn fails.
ForkOutcomes == {"spawned", "get current exe", "spawn agent"}

SpawnOp(name, result, forked) ==
    Some([tool |-> "spawn_agent", result |-> result, before |-> TeamSnapshot,
          name |-> name, forked |-> forked])

\* SpawnAgentTool::run (tools/team.rs 261-346): the registration of the member
\* in the config, then the fork of the child process.
SpawnAgent ==
    /\ \E name \in SpawnNames, fork \in ForkOutcomes :
        IF team_state = None \/ team_state[1].team_name \notin DOMAIN team_dirs
        THEN \* "No active team", or "read team config" fails
             /\ last_team_op' = SpawnOp(name, "Err", FALSE)
             /\ UNCHANGED team_dirs
        ELSE LET team == team_state[1].team_name
                 config == team_dirs[team]
             IN  IF member_exists(config, name)
                 THEN /\ last_team_op' = SpawnOp(name, "error", FALSE)
                      /\ UNCHANGED team_dirs
                 ELSE /\ team_dirs' = [team_dirs EXCEPT ![team].members =
                                           Append(@, name)]
                      /\ last_team_op' =
                             IF fork = "spawned"
                             THEN SpawnOp(name, "success", TRUE)
                             ELSE SpawnOp(name, "Err", FALSE)
    /\ UNCHANGED <<team_state, tasks_dirs>>
    /\ UNCHANGED nonTeamVars

\* The process of a member approves a shutdown request (send_message.rs
\* 175-205): it takes itself out of the config of its team and exits.
MemberShutdown ==
    /\ \E team \in DOMAIN team_dirs, name \in WorkerNames :
        LET keeps(m) == m # name
        IN  /\ \E i \in 1..Len(team_dirs[team].members) :
                  team_dirs[team].members[i] = name
            /\ team_dirs' = [team_dirs EXCEPT ![team].members = SelectSeq(@, keeps)]
            /\ last_team_op' = TeamOp("shutdown_response", "exit")
    /\ UNCHANGED <<team_state, tasks_dirs>>
    /\ UNCHANGED nonTeamVars

\* TeamDeleteTool::run (tools/team.rs 171-206)
TeamDelete ==
    /\ IF team_state = None
       THEN \* get_team: "No active team"
            /\ last_team_op' = TeamOp("team_delete", "Err")
            /\ UNCHANGED <<team_state, team_dirs, tasks_dirs>>
       ELSE LET team == team_state[1].team_name
            IN  IF team \in DOMAIN team_dirs /\ has_other_members(team_dirs[team])
                THEN /\ last_team_op' = TeamOp("team_delete", "error")
                     /\ UNCHANGED <<team_state, team_dirs, tasks_dirs>>
                ELSE /\ team_dirs' = remove_team_dir(team_dirs, team)
                     /\ tasks_dirs' = tasks_dirs \ {team}
                     /\ team_state' = None
                     /\ last_team_op' = TeamOp("team_delete", "success")
    /\ UNCHANGED nonTeamVars

NextTeam == TeamCreate \/ SpawnAgent \/ MemberShutdown \/ TeamDelete

(***************************************************************************)
(* The inboxes of a team: send_message of type "message" with              *)
(* team::append_inbox (send_message.rs 96-112, core/team.rs 242-265) and   *)
(* check_inbox (send_message.rs 270-318).  Each tool run is one step: a    *)
(* waiting check_inbox is its poll that returns.                           *)
(***************************************************************************)
Agents == {"team-lead", "w1"}

\* core/team.rs, struct InboxMessage
InboxMessage(from, text, timestamp, read) ==
    [from |-> from, text |-> text, timestamp |-> timestamp, read |-> read]

\* team::append_inbox: read the list, push, write it back.
append_inbox(files, agent, msg) == [files EXCEPT ![agent] = Append(@, msg)]

IsUnread(m) == ~m.read

\* "messages.iter().filter(|m| !m.read)"
unread(msgs) == SelectSeq(msgs, IsUnread)

\* A variant of mark_all_read that leaves the flags as they are.
mark_all_read_Keep(msgs) == msgs

\* "for msg in &mut all { msg.read = true; }"
mark_all_read(msgs) == [i \in 1..Len(msgs) |-> [msgs[i] EXCEPT !.read = TRUE]]

\* The "formatted" values check_inbox returns, by their timestamps.
Timestamps(msgs) == [i \in 1..Len(msgs) |-> msgs[i].timestamp]

InboxIdle ==
    /\ inbox_files = [a \in Agents |-> <<>>]
    /\ inbox_clock = 0
    /\ inbox_sent = [a \in Agents |-> <<>>]
    /\ inbox_returned = [a \in Agents |-> <<>>]
    /\ last_inbox_op = None

\* SendMessageTool::run for type "message" (send_message.rs 96-112).
SendMessage ==
    /\ inbox_clock < MaxInbox
    /\ \E from \in Agents, recipient \in Agents :
        LET msg == InboxMessage(from, "hello", inbox_clock + 1, FALSE)
        IN  /\ inbox_files' = append_inbox(inbox_files, recipient, msg)
            /\ inbox_sent' = [inbox_sent EXCEPT ![recipient] = Append(@, msg.timestamp)]
            /\ last_inbox_op' = Some([tool |-> "send_message", agent |-> recipient,
                                      returned |-> <<>>])
    /\ inbox_clock' = inbox_clock + 1
    /\ UNCHANGED inbox_returned
    /\ UNCHANGED nonInboxVars

\* CheckInboxTool::run (send_message.rs 270-318) of an agent.
CheckInbox ==
    /\ \E agent \in Agents :
        LET msgs == inbox_files[agent]
            new == unread(msgs)
        IN  /\ IF new # <<>>
               THEN inbox_files' = [inbox_files EXCEPT ![agent] = mark_all_read(msgs)]
               ELSE UNCHANGED inbox_files
            /\ inbox_returned' =
                   IF new # <<>>
                   THEN [inbox_returned EXCEPT ![agent] = Append(@, Timestamps(new))]
                   ELSE inbox_returned
            /\ last_inbox_op' = Some([tool |-> "check_inbox", agent |-> agent,
                                      returned |-> Timestamps(new)])
    /\ UNCHANGED <<inbox_clock, inbox_sent>>
    /\ UNCHANGED nonInboxVars

NextInbox == SendMessage \/ CheckInbox

(***************************************************************************)
(* OpenAiProvider::throttle and the HTTP requests of stream_response       *)
(* (openai.rs 41-49, 252-326), for several callers of one provider         *)
(* instance.  Each caller moves between the await points of the call: the  *)
(* lock of last_request, the sleep of throttle, and the backoff sleep of   *)
(* the retry loop.  The first request of a call starts in the step in      *)
(* which throttle returns.                                                 *)
(***************************************************************************)
MaxCallers == 2     \* concurrent callers of one provider instance
MaxTicks == 10      \* clock ticks of one run

\* "const MIN_REQUEST_INTERVAL_MS: u64 = 500"
MIN_REQUEST_INTERVAL_MS == 500

\* The clock moves in steps of half the minimum interval.
TickMs == MIN_REQUEST_INTERVAL_MS \div 2

ThrottleCallers == 1..MaxCallers

ThrottleIdle ==
    /\ th_now = 0
    /\ last_request = 0 - 10000     \* "Instant::now() - Duration::from_secs(10)"
    /\ th_holder = 0
    /\ th_pc = [c \in ThrottleCallers |-> "idle"]
    /\ th_wake = [c \in ThrottleCallers |-> 0]
    /\ th_attempt = [c \in ThrottleCallers |-> 0]
    /\ req_starts = <<>>

\* The last two entries of a sequence of start times.
LastTwo(s) == IF Len(s) <= 2 THEN s ELSE SubSeq(s, Len(s) - 1, Len(s))

\* One pass of the retry loop from ".send()" on (openai.rs 284-323): the
\* request starts now; a 2xx response or the last attempt ends the call, a
\* retryable failure leads to the sleep at the head of the next pass.
SendRequest(c) ==
    /\ req_starts' = LastTwo(Append(req_starts, th_now))
    /\ \E ok \in BOOLEAN :
        IF ok \/ th_attempt[c] + 1 >= MAX_RETRIES
        THEN /\ th_pc' = [th_pc EXCEPT ![c] = "idle"]
             /\ th_attempt' = [th_attempt EXCEPT ![c] = 0]
             /\ UNCHANGED th_wake
        ELSE \E r \in JitterSamples :
             /\ th_pc' = [th_pc EXCEPT ![c] = "backoff"]
             /\ th_attempt' = [th_attempt EXCEPT ![c] = th_attempt[c] + 1]
             /\ th_wake' = [th_wake EXCEPT ![c] =
                    th_now + compute_backoff(th_attempt[c] + 1, None, r)]

\* throttle up to its sleep (openai.rs 42-47), and, when it does not sleep,
\* on to the first request.
ThrottleEnter(c) ==
    /\ th_pc[c] = "idle"
    /\ th_holder = 0
    /\ LET elapsed == th_now - last_request
       IN  IF elapsed < MIN_REQUEST_INTERVAL_MS
           THEN /\ th_holder' = c
                /\ th_pc' = [th_pc EXCEPT ![c] = "throttle"]
                /\ th_wake' = [th_wake EXCEPT ![c] =
                       th_now + (MIN_REQUEST_INTERVAL_MS - elapsed)]
                /\ UNCHANGED <<last_request, th_attempt, req_starts>>
           ELSE /\ last_request' = th_now
                /\ UNCHANGED th_holder
                /\ SendRequest(c)
    /\ UNCHANGED <<th_now, nonThrottleVars>>

\* The sleep of throttle is over (openai.rs 48): the timestamp is set, the
\* guard dropped, and the first request starts.
ThrottleWake(c) ==
    /\ th_pc[c] = "throttle"
    /\ th_now >= th_wake[c]
    /\ last_request' = th_now
    /\ th_holder' = 0
    /\ SendRequest(c)
    /\ UNCHANGED <<th_now, nonThrottleVars>>

\* The backoff sleep of the retry loop is over (openai.rs 275-282): the
\* next request starts.
RetryWake(c) ==
    /\ th_pc[c] = "backoff"
    /\ th_now >= th_wake[c]
    /\ SendRequest(c)
    /\ UNCHANGED <<th_now, last_request, th_holder, nonThrottleVars>>

ThrottleTick ==
    /\ th_now < MaxTicks * TickMs
    /\ th_now' = th_now + TickMs
    /\ UNCHANGED <<last_request, th_holder, th_pc, th_wake, th_attempt,
                   req_starts, nonThrottleVars>>

NextThrottle ==
    \/ \E c \in ThrottleCallers : ThrottleEnter(c)
    \/ \E c \in ThrottleCallers : ThrottleWake(c)
    \/ \E c \in ThrottleCallers : RetryWake(c)
    \/ ThrottleTick

(***************************************************************************)
(* The turns of the TUI and the tasks Agent::run spawns for them           *)
(* (tui/mod.rs 206, 285-314, 390-398, 506-516; agent.rs 57-100, 204-336).  *)
(* A task is followed through the await points of agent_loop: the          *)
(* stream_response call of the retry block, the sleep after a RateLimited  *)
(* result, process_stream, and the run of a tool.  A task's queue holds    *)
(* the terminal-looking events (Complete, Error) it has sent and the TUI   *)
(* has not yet received; a task runs at most MaxRounds model rounds.       *)
(***************************************************************************)
MaxBgTasks == 2     \* Agent::run calls of one TUI run

TurnIdle ==
    /\ bg_tasks = <<>>
    /\ agent_rx = 0

BgTask(session_id) ==
    [session_id |-> session_id, pc |-> "request", agent_attempt |-> 0,
     cancelled |-> FALSE, queue |-> <<>>, rounds |-> 1]

\* The task has not yet returned.
TaskRunning(task) == task.pc # "done"

\* "let _ = tx.send(event).await": the event is delivered while the TUI
\* still holds the receiver and is lost once it has dropped it
\* ("app.agent_rx = None" drops the receiver and what it still holds).
tx_send(i, task, event) ==
    IF agent_rx = i THEN [task EXCEPT !.queue = Append(@, event)] ELSE task

\* The end of the spawned task (agent.rs 73-95): an Err result of agent_loop
\* is sent as an Error event.
task_failed(i, task) ==
    [tx_send(i, task, "Error") EXCEPT !.pc = "done", !.agent_attempt = 0,
                                      !.cancelled = FALSE, !.rounds = 1]

\* submit_message (tui/mod.rs 506-516) with the Agent::run call it makes.
SubmitAndRun ==
    /\ tui_app.running /\ ~tui_app.is_streaming
    /\ Len(bg_tasks) < MaxBgTasks
    /\ tui_app' = [tui_app EXCEPT !.is_streaming = TRUE]
    /\ turns' = turns + 1
    /\ bg_tasks' = Append(bg_tasks, BgTask(tui_app.session.id))
    /\ agent_rx' = Len(bg_tasks) + 1
    /\ UNCHANGED <<db_sessions, last_complete, nonTurnVars>>

\* The head of "loop" and the stream_response call (agent.rs 204-239): the
\* cancel check, then a stream, a RateLimited result (its notice is sent as
\* an Error event before the sleep), or another provider error.
TaskRequest(i) ==
    /\ bg_tasks[i].pc = "request"
    /\ LET task == bg_tasks[i]
       IN  IF task.cancelled /\ task.agent_attempt = 0
           THEN bg_tasks' = [bg_tasks EXCEPT ![i] = task_failed(i, task)]
           ELSE \E result \in {"stream", "rate_limited", "error"} :
                bg_tasks' = [bg_tasks EXCEPT ![i] =
                    CASE result = "stream" -> [task EXCEPT !.pc = "stream",
                                                           !.agent_attempt = 0]
                      [] result = "rate_limited" ->
                            [tx_send(i, task, "Error") EXCEPT !.pc = "sleep"]
                      [] OTHER -> task_failed(i, task)]
    /\ UNCHANGED <<agent_rx, tuiVars, nonTurnVars>>

\* The sleep after a RateLimited result is over (agent.rs 232-238).
TaskWake(i) ==
    /\ bg_tasks[i].pc = "sleep"
    /\ LET task == bg_tasks[i]
       IN  bg_tasks' = [bg_tasks EXCEPT ![i] =
               IF task.agent_attempt = 2 THEN task_failed(i, task)
               ELSE [task EXCEPT !.pc = "request",
                                 !.agent_attempt = task.agent_attempt + 1]]
    /\ UNCHANGED <<agent_rx, tuiVars, nonTurnVars>>

\* process_stream returns (agent.rs 241-262, 370-373): Cancelled once the
\* token is cancelled, else a final reply or a reply with a tool call.
TaskStream(i) ==
    /\ bg_tasks[i].pc = "stream"
    /\ LET task == bg_tasks[i]
       IN  IF task.cancelled
           THEN bg_tasks' = [bg_tasks EXCEPT ![i] = task_failed(i, task)]
           ELSE \E finish \in {"end_turn"}
                                \cup (IF task.rounds < MaxRounds THEN {"tool_use"} ELSE {}) :
                bg_tasks' = [bg_tasks EXCEPT ![i] =
                    IF finish = "end_turn"
                    THEN [tx_send(i, task, "Complete") EXCEPT !.pc = "done",
                                                              !.rounds = 1]
                    ELSE [task EXCEPT !.pc = "tool", !.rounds = task.rounds + 1]]
    /\ UNCHANGED <<agent_rx, tuiVars, nonTurnVars>>

\* tool.run returns (agent.rs 292-336): the loop goes back to its head.
TaskToolDone(i) ==
    /\ bg_tasks[i].pc = "tool"
    /\ bg_tasks' = [bg_tasks EXCEPT ![i].pc = "request"]
    /\ UNCHANGED <<agent_rx, tuiVars, nonTurnVars>>

\* "Some(event) = recv_agent(&mut app.agent_rx)" (tui/mod.rs 206) and
\* handle_agent_event for a Complete event (285-303).
ReceiveComplete ==
    /\ agent_rx # 0
    /\ bg_tasks[agent_rx].queue # <<>>
    /\ Head(bg_tasks[agent_rx].queue) = "Complete"
    /\ CompleteArm
    /\ bg_tasks' = [bg_tasks EXCEPT ![agent_rx].queue = <<>>]
    /\ agent_rx' = 0
    /\ UNCHANGED nonTurnVars

\* handle_agent_event for an Error event (tui/mod.rs 304-313)
ReceiveError ==
    /\ agent_rx # 0
    /\ bg_tasks[agent_rx].queue # <<>>
    /\ Head(bg_tasks[agent_rx].queue) = "Error"
    /\ tui_app' = [tui_app EXCEPT !.is_streaming = FALSE]
    /\ bg_tasks' = [bg_tasks EXCEPT ![agent_rx].queue = <<>>]
    /\ agent_rx' = 0
    /\ UNCHANGED <<db_sessions, turns, last_complete, nonTurnVars>>

\* Ctrl-C while streaming (tui/mod.rs 390-398); the token of a task that
\* has returned is read by nobody and is not recorded.
CancelKey ==
    /\ tui_app.running /\ tui_app.is_streaming
    /\ agent_rx # 0
    /\ bg_tasks' = [bg_tasks EXCEPT ![agent_rx].queue = <<>>,
                                    ![agent_rx].cancelled =
                                        TaskRunning(bg_tasks[agent_rx])]
    /\ tui_app' = [tui_app EXCEPT !.is_streaming = FALSE]
    /\ agent_rx' = 0
    /\ UNCHANGED <<db_sessions, turns, last_complete, nonTurnVars>>

NextTurn ==
    \/ TuiRun
    \/ SubmitAndRun
    \/ \E i \in DOMAIN bg_tasks : TaskRequest(i)
    \/ \E i \in DOMAIN bg_tasks : TaskWake(i)
    \/ \E i \in DOMAIN bg_tasks : TaskStream(i)
    \/ \E i \in DOMAIN bg_tasks : TaskToolDone(i)
    \/ ReceiveComplete
    \/ ReceiveError
    \/ CancelKey

(***************************************************************************)
(* EditTool::run (crates/octo-tools/src/edit.rs 60-121) on one path.       *)
(***************************************************************************)
FileContents == {"", "ab", "aaa", "abab"}
OldStrings == {"a", "aa", "ab", "ba", "c"}
NewStrings == {"", "x"}

\* str::match_indices for a non-empty pattern, as the number of matches:
\* the search for the next match resumes after the end of the last one.
RECURSIVE match_indices(_, _, _)
match_indices(content, pat, i) ==
    IF i + Len(pat) - 1 > Len(content) THEN 0
    ELSE IF SubSeq(content, i, i + Len(pat) - 1) = pat
         THEN 1 + match_indices(content, pat, i + Len(pat))
         ELSE match_indices(content, pat, i + 1)

\* The offset of the first match of pat in content from offset i on.
RECURSIVE find(_, _, _)
find(content, pat, i) ==
    IF SubSeq(content, i, i + Len(pat) - 1) = pat THEN i
    ELSE find(content, pat, i + 1)

\* content.replacen(old_string, new_string, 1), given that a match exists
replacen(content, old_string, new_string) ==
    LET i == find(content, old_string, 1)
    IN  SubSeq(content, 1, i - 1) \o new_string
            \o SubSeq(content, i + Len(old_string), Len(content))

EditIdle ==
    /\ fs_file = None
    /\ last_edit = None

\* The file is created, overwritten or removed outside the edit tool.
FileStored ==
    /\ \E file \in {None} \cup {Some(c) : c \in FileContents} :
        /\ file # fs_file
        /\ fs_file' = file
    /\ UNCHANGED <<last_edit, nonEditVars>>

\* EditTool::run for a call whose input holds the three parameters.  answer
\* is what permission_service.request returns if it is called.
EditRun ==
    /\ \E old_string \in OldStrings, new_string \in NewStrings,
          answer \in PermissionDecisions :
        LET run(consulted, after, result) ==
                Some([old_string |-> old_string, new_string |-> new_string,
                      before |-> fs_file, after |-> after,
                      consulted |-> consulted,
                      decision |-> IF consulted THEN answer ELSE "",
                      result |-> result])
        IN  IF fs_file = None
            THEN /\ last_edit' = run(FALSE, fs_file, "File not found")
                 /\ UNCHANGED fs_file
            ELSE LET content == fs_file[1]
                     matches == match_indices(content, old_string, 1)
                 IN  IF matches = 0
                     THEN /\ last_edit' = run(FALSE, fs_file, "old_string not found")
                          /\ UNCHANGED fs_file
                     ELSE IF matches > 1
                     THEN /\ last_edit' = run(FALSE, fs_file, "must be unique")
                          /\ UNCHANGED fs_file
                     ELSE IF answer = "Deny"
                     THEN /\ last_edit' = run(TRUE, fs_file, "PermissionDenied")
                          /\ UNCHANGED fs_file
                     ELSE LET new_content ==
                                  replacen(content, old_string, new_string)
                          IN  /\ fs_file' = Some(new_content)
                              /\ last_edit' = run(TRUE, Some(new_content), "Edited")
    /\ UNCHANGED nonEditVars

NextEdit == EditRun \/ FileStored

(***************************************************************************)
(* Sibling agent processes of one team on the shared files: append_inbox   *)
(* (core/team.rs 254-265) on one recipient's inbox, and task_create        *)
(* (task_mgmt.rs 81-97) with next_task_id (core/team.rs 215-240).  Every   *)
(* file read and every file write is a step of its own; nothing locks the  *)
(* files.                                                                  *)
(***************************************************************************)
MaxSibOps == 2      \* tool runs of one sibling process

Siblings == {"w1", "w2"}

SibIdle ==
    /\ sib_inbox = <<>>
    /\ sib_counter = 1
    /\ sib_tasks = [i \in {} |-> <<>>]
    /\ sib_pc = [p \in Siblings |-> "idle"]
    /\ sib_local = [p \in Siblings |-> <<>>]
    /\ sib_ops = [p \in Siblings |-> 0]
    /\ sib_sent = {}
    /\ sib_created = {}
    /\ sib_stale = {}

\* The message or task of the run a process is in.
SibItem(p) == [from |-> p, n |-> sib_ops[p]]

\* A variant of pushed that pushes onto the list the file holds now.
pushed_Fresh(local, file, msg) == Append(file, msg)

\* "let mut messages = read_inbox(..).unwrap_or_default(); messages.push(msg)":
\* the list written is the list read, with msg pushed.
pushed(local, file, msg) == Append(local, msg)

\* A variant of counter_id that takes the id the file holds now.
counter_id_Fresh(local, file) == file

\* "let id = counter.next_id": the id of the counter read.
counter_id(local, file) == local

\* append_inbox up to "read_inbox(base, team, agent)"
AppendRead(p) ==
    /\ sib_pc[p] = "idle"
    /\ sib_ops[p] < MaxSibOps
    /\ sib_ops' = [sib_ops EXCEPT ![p] = @ + 1]
    /\ sib_local' = [sib_local EXCEPT ![p] = sib_inbox]
    /\ sib_pc' = [sib_pc EXCEPT ![p] = "append"]
    /\ UNCHANGED <<sib_inbox, sib_counter, sib_tasks, sib_sent, sib_created,
                   sib_stale, nonSibVars>>

\* append_inbox from "messages.push(msg)" to "fs::write(&path, data)"
AppendWrite(p) ==
    /\ sib_pc[p] = "append"
    /\ sib_inbox' = pushed(sib_local[p], sib_inbox, SibItem(p))
    /\ sib_sent' = sib_sent \cup {SibItem(p)}
    /\ sib_stale' = IF sib_local[p] # sib_inbox
                    THEN sib_stale \cup {"inbox"} ELSE sib_stale
    /\ sib_local' = [sib_local EXCEPT ![p] = <<>>]
    /\ sib_pc' = [sib_pc EXCEPT ![p] = "idle"]
    /\ UNCHANGED <<sib_counter, sib_tasks, sib_ops, sib_created, nonSibVars>>

\* task_create up to the read of counter.json in next_task_id
CounterRead(p) ==
    /\ sib_pc[p] = "idle"
    /\ sib_ops[p] < MaxSibOps
    /\ sib_ops' = [sib_ops EXCEPT ![p] = @ + 1]
    /\ sib_local' = [sib_local EXCEPT ![p] = sib_counter]
    /\ sib_pc' = [sib_pc EXCEPT ![p] = "counter"]
    /\ UNCHANGED <<sib_inbox, sib_counter, sib_tasks, sib_sent, sib_created,
                   sib_stale, nonSibVars>>

\* next_task_id from "let id = counter.next_id" to its return
CounterWrite(p) ==
    /\ sib_pc[p] = "counter"
    /\ LET id == counter_id(sib_local[p], sib_counter)
       IN  /\ sib_counter' = id + 1
           /\ sib_local' = [sib_local EXCEPT ![p] = id]
    /\ sib_stale' = IF sib_local[p] # sib_counter
                    THEN sib_stale \cup {"counter"} ELSE sib_stale
    /\ sib_pc' = [sib_pc EXCEPT ![p] = "task"]
    /\ UNCHANGED <<sib_inbox, sib_tasks, sib_ops, sib_sent, sib_created,
                   nonSibVars>>

\* task_create from "team::write_task" to its return
SibTaskWrite(p) ==
    /\ sib_pc[p] = "task"
    /\ LET id == sib_local[p]
       IN  /\ sib_tasks' = [i \in DOMAIN sib_tasks \cup {id} |->
                                IF i = id THEN SibItem(p) ELSE sib_tasks[i]]
           /\ sib_created' = sib_created \cup {[run |-> SibItem(p), id |-> id]}
    /\ sib_local' = [sib_local EXCEPT ![p] = <<>>]
    /\ sib_pc' = [sib_pc EXCEPT ![p] = "idle"]
    /\ UNCHANGED <<sib_inbox, sib_counter, sib_ops, sib_sent, sib_stale,
                   nonSibVars>>

NextSib ==
    \/ \E p \in Siblings : AppendRead(p)
    \/ \E p \in Siblings : AppendWrite(p)
    \/ \E p \in Siblings : CounterRead(p)
    \/ \E p \in Siblings : CounterWrite(p)
    \/ \E p \in Siblings : SibTaskWrite(p)

(***************************************************************************)
(* A turn of the TUI whose model reply dispatches the write tool           *)
(* (tools/write.rs 46-99) under TuiPermissionService (tui/permission.rs    *)
(* 40-71), with the permission dialog and Ctrl-C of the TUI loop           *)
(* (tui/mod.rs 202-221, 321-340, 390-398).  The agent task and the TUI     *)
(* loop run on different threads: each step below is one of them between   *)
(* two await points.                                                       *)
(***************************************************************************)
WriteContents == {"v1", "v2"}

GateIdle ==
    /\ wt = [is_streaming |-> FALSE,  \* TuiApp.is_streaming
             cancelled |-> FALSE,     \* the CancellationToken of the turn
             pc |-> "idle",           \* where the agent task stands
             perm_rx |-> FALSE,       \* a PermissionReq is in the channel
             dialog |-> FALSE,        \* TuiApp.pending_permission is Some
             answer |-> "",           \* what the responder was sent
             persistent |-> FALSE,    \* persistent_approvals holds the key
             file |-> None,           \* the file at the path of the call
             content |-> "",          \* the content of the call in progress
             fired_waiting |-> FALSE, \* the token fired while the tool waited
             turns |-> 0]
    /\ wt_writes = {}

\* submit_message (tui/mod.rs 506-516): a new task and a new token.
GateSubmit ==
    /\ ~wt.is_streaming /\ wt.pc = "idle"
    /\ wt.turns < MaxTurns
    /\ wt' = [wt EXCEPT !.is_streaming = TRUE, !.cancelled = FALSE,
                        !.pc = "dispatch", !.fired_waiting = FALSE,
                        !.turns = wt.turns + 1]
    /\ UNCHANGED <<wt_writes, nonGateVars>>

\* "tokio::fs::write(&path, content)" (write.rs 88-90)
fs_write(content) ==
    /\ wt_writes' = wt_writes \cup {[content |-> content,
                                     fired_waiting |-> wt.fired_waiting,
                                     turn |-> wt.turns]}

\* The cancel check before a tool call (agent.rs 263), then WriteTool::run up
\* to the await of the decision: a persistent approval answers at once, else
\* the request goes to the TUI.
WriteRequest ==
    /\ wt.pc = "dispatch"
    /\ IF wt.cancelled
       THEN /\ wt' = [wt EXCEPT !.pc = "idle"]
            /\ UNCHANGED wt_writes
       ELSE \E content \in WriteContents :
            IF wt.persistent
            THEN /\ wt' = [wt EXCEPT !.pc = "finish", !.file = Some(content)]
                 /\ fs_write(content)
            ELSE /\ wt' = [wt EXCEPT !.pc = "waiting", !.perm_rx = TRUE,
                                     !.content = content]
                 /\ UNCHANGED wt_writes
    /\ UNCHANGED nonGateVars

\* "Some(perm) = app.perm_rx.recv(), if app.pending_permission.is_none()"
GateRecvPermission ==
    /\ wt.perm_rx /\ ~wt.dialog
    /\ wt' = [wt EXCEPT !.perm_rx = FALSE, !.dialog = TRUE]
    /\ UNCHANGED <<wt_writes, nonGateVars>>

\* handle_key_event with the permission dialog open (tui/mod.rs 323-339)
GateAnswer ==
    /\ wt.dialog
    /\ \E d \in PermissionDecisions :
        wt' = [wt EXCEPT !.dialog = FALSE, !.answer = d]
    /\ UNCHANGED <<wt_writes, nonGateVars>>

\* Ctrl-C while streaming and no dialog is open (tui/mod.rs 390-398)
GateCancel ==
    /\ wt.is_streaming /\ ~wt.dialog
    /\ wt' = [wt EXCEPT !.cancelled = TRUE, !.is_streaming = FALSE,
                        !.fired_waiting = (wt.pc = "waiting")]
    /\ UNCHANGED <<wt_writes, nonGateVars>>

\* TuiPermissionService::request from "match resp_rx.await" on, and the rest
\* of WriteTool::run (permission.rs 62-71, write.rs 73-99).
WriteResume ==
    /\ wt.pc = "waiting" /\ wt.answer # ""
    /\ IF wt.answer = "Deny"
       THEN /\ wt' = [wt EXCEPT !.pc = "finish", !.answer = "", !.content = ""]
            /\ UNCHANGED wt_writes
       ELSE /\ wt' = [wt EXCEPT !.pc = "finish", !.answer = "", !.content = "",
                                !.file = Some(wt.content),
                                !.persistent = (@ \/ wt.answer = "AllowPersistent")]
            /\ fs_write(wt.content)
    /\ UNCHANGED nonGateVars

\* The task ends: with Cancelled at the next check of the token, or with a
\* Complete event that the TUI receives (agent.rs 205-207, 242-257).
GateTurnEnd ==
    /\ wt.pc = "finish"
    /\ wt' = [wt EXCEPT !.pc = "idle", !.is_streaming = FALSE]
    /\ UNCHANGED <<wt_writes, nonGateVars>>

NextGate ==
    \/ GateSubmit
    \/ WriteRequest
    \/ GateRecvPermission
    \/ GateAnswer
    \/ GateCancel
    \/ WriteResume
    \/ GateTurnEnd

(***************************************************************************)
(* The output of a bash call: BashTool::run from the exit of the child to  *)
(* its ToolResult (tools/bash.rs 140-183), and the tool-result arm of      *)
(* agent_loop after it (agent.rs 292-333).  A string is a sequence of runs *)
(* of characters of one UTF-8 width, so that byte offsets and character    *)
(* boundaries are those of the Rust String.                                *)
(***************************************************************************)
MAX_OUTPUT == 30000

\* count characters of width bytes each
Run(width, count) == [width |-> width, count |-> count]

\* n ASCII bytes (a literal, or plain output)
Ascii(n) == IF n = 0 THEN <<>> ELSE <<Run(1, n)>>

RECURSIVE byte_len(_)
\* str::len
byte_len(s) ==
    IF s = <<>> THEN 0
    ELSE Head(s).width * Head(s).count + byte_len(Tail(s))

RECURSIVE is_char_boundary(_, _)
\* str::is_char_boundary: 0, len, and the offsets where a character starts.
is_char_boundary(s, index) ==
    IF index = 0 THEN TRUE
    ELSE IF s = <<>> THEN FALSE
    ELSE LET bytes == Head(s).width * Head(s).count
         IN  IF index <= bytes THEN index % Head(s).width = 0
             ELSE is_char_boundary(Tail(s), index - bytes)

RECURSIVE prefix(_, _)
\* &s[..index] for a boundary index
prefix(s, index) ==
    IF index = 0 \/ s = <<>> THEN <<>>
    ELSE LET bytes == Head(s).width * Head(s).count
         IN  IF index < bytes
             THEN <<Run(Head(s).width, index \div Head(s).width)>>
             ELSE <<Head(s)>> \o prefix(Tail(s), index - bytes)

\* String::truncate(new_len): None stands for the panic "new_len does not
\* lie on a char boundary".
truncate(s, new_len) ==
    IF new_len > byte_len(s) THEN Some(s)
    ELSE IF is_char_boundary(s, new_len) THEN Some(prefix(s, new_len))
    ELSE None

\* str::floor_char_boundary
floor_char_boundary(s, index) ==
    IF index >= byte_len(s) THEN byte_len(s)
    ELSE CHOOSE b \in 0..index :
            /\ is_char_boundary(s, b)
            /\ \A c \in (b + 1)..index : ~is_char_boundary(s, c)

\* The number of decimal digits of n (format!("{}", n)).
Digits(n) == Len(ToString(n))

\* truncate_tool_result (agent.rs 103-114) on such a string; None stands for
\* the panic of the slice &content[..boundary].
truncate_tool_result_utf8(content, max_chars) ==
    IF byte_len(content) <= max_chars THEN Some(content)
    ELSE LET boundary == floor_char_boundary(content, max_chars)
         IN  IF is_char_boundary(content, boundary)
             THEN Some(prefix(content, boundary)
                       \o Ascii(Len("\n\n... [truncated: ")
                                + Digits(byte_len(content))
                                + Len(" total chars, showing first ")
                                + Digits(max_chars) + Len("]")))
             ELSE None

\* What the child wrote, after String::from_utf8_lossy: ASCII text up to an
\* offset near MAX_OUTPUT, one character of 1 to 4 bytes, and a tail.
Stdouts ==
    { Ascii(n) \o <<Run(w, 1)>> \o Ascii(k) :
        n \in {0, MAX_OUTPUT - 10, MAX_OUTPUT - 3, MAX_OUTPUT - 2,
               MAX_OUTPUT - 1, MAX_OUTPUT},
        w \in 1..4, k \in {0, 1} } \cup {<<>>}
Stderrs == {<<>>, <<Run(3, 1)>>}
ExitStatuses == {0, 1}

\* "let mut result = String::new(); ... result.push_str(&stderr)" (154-165)
collect_output(stdout, stderr) ==
    LET a == IF stdout # <<>> THEN stdout ELSE <<>>
        b == IF stderr # <<>>
             THEN (IF a # <<>> THEN a \o Ascii(1) ELSE a)
                  \o Ascii(Len("STDERR:\n")) \o stderr
             ELSE a
    IN  b

TruncIdle ==
    /\ bt_pc = "idle"
    /\ bt_out = None
    /\ bt_result = None
    /\ bt_events = <<>>

\* The child exits within the timeout: `output` holds its stdout, stderr
\* and exit status (bash.rs 140-153).
BashOutput ==
    /\ bt_pc = "idle"
    /\ \E stdout \in Stdouts, stderr \in Stderrs, code \in ExitStatuses :
        bt_out' = Some([stdout |-> stdout, stderr |-> stderr, code |-> code])
    /\ bt_pc' = "ran"
    /\ UNCHANGED <<bt_result, bt_events>>
    /\ UNCHANGED nonTruncVars

\* The rest of BashTool::run (bash.rs 155-183).  A panic of result.truncate
\* unwinds the task Agent::run spawned: tx is dropped with nothing sent.
BashCollect ==
    /\ bt_pc = "ran"
    /\ LET result == collect_output(bt_out[1].stdout, bt_out[1].stderr)
           cut == IF byte_len(result) > MAX_OUTPUT
                  THEN truncate(result, MAX_OUTPUT) ELSE Some(result)
       IN  IF cut = None
           THEN /\ bt_pc' = "panicked"
                /\ UNCHANGED bt_result
           ELSE LET shown == IF byte_len(result) > MAX_OUTPUT
                             THEN cut[1] \o Ascii(Len("\n... (output truncated)"))
                             ELSE cut[1]
                    text == IF shown = <<>> THEN Ascii(Len("(no output)"))
                            ELSE shown
                IN  /\ bt_pc' = "returned"
                    /\ bt_result' =
                         IF bt_out[1].code = 0
                         THEN Some([content |-> text, is_error |-> FALSE])
                         ELSE Some([content |->
                                      Ascii(Len("Exit code ")
                                            + Digits(bt_out[1].code) + 1) \o text,
                                    is_error |-> TRUE])
    /\ UNCHANGED <<bt_out, bt_events>>
    /\ UNCHANGED nonTruncVars

\* agent.rs 308-332: the ToolResult event of a successful run, and the
\* truncation of the content that goes into the tool message.
LoopToolResult ==
    /\ bt_pc = "returned"
    /\ LET cut == truncate_tool_result_utf8(bt_result[1].content, 30000)
       IN  IF cut = None
           THEN /\ bt_pc' = "panicked"
                /\ UNCHANGED <<bt_result, bt_events>>
           ELSE /\ bt_pc' = "next_round"
                /\ bt_result' = Some([bt_result[1] EXCEPT !.content = cut[1]])
                /\ bt_events' =
                     IF bt_result[1].is_error THEN bt_events
                     ELSE Append(bt_events, [type |-> "ToolResult"])
    /\ UNCHANGED bt_out
    /\ UNCHANGED nonTruncVars

\* The rounds after the tool message end the turn with Complete (agent.rs
\* 338-347) or with the Error of Agent::run (89-95).
TurnEnds ==
    /\ bt_pc = "next_round"
    /\ \E type \in {"Complete", "Error"} :
        bt_events' = Append(bt_events, [type |-> type])
    /\ bt_pc' = "done"
    /\ UNCHANGED <<bt_out, bt_result>>
    /\ UNCHANGED nonTruncVars

NextTrunc == BashOutput \/ BashCollect \/ LoopToolResult \/ TurnEnds

(***************************************************************************)
(* The components added to the stream, retry, permission and loop ones,    *)
(* at rest.                                                                *)
(***************************************************************************)
ExtIdle ==
    DecodeIdle /\ TuiIdle /\ TaskIdle /\ BashIdle /\ TeamIdle /\ InboxIdle
    /\ ThrottleIdle /\ TurnIdle /\ EditIdle /\ SibIdle
    /\ GateIdle /\ TruncIdle

(***************************************************************************)
(* Specification SpecStream: one process_stream call fed any sequence of   *)
(* provider events.                                                        *)
(***************************************************************************)
\* The events a provider stream may carry, over small payload sets.
StreamAlphabet ==
    { EvContentStart, EvContentDelta("a"), EvContentStop, EvThinkingDelta("t"),
      EvToolUseStart("c1", "view"), EvToolUseStart("c2", ""),
      EvToolUseDelta("x"), EvToolUseStop,
      EvComplete("end_turn", Usage1), EvComplete("tool_use", Usage1),
      EvError }

StreamIdle ==
    /\ ps = PsNew
    /\ stream_in = <<>>

InitStream == StreamIdle /\ RetryIdle /\ PermIdle /\ LoopIdle /\ ExtIdle

\* "event = stream.next()" yields Some(ev).
StreamEvent ==
    /\ ps.status = "streaming"
    /\ Len(stream_in) < MaxEvents
    /\ \E ev \in StreamAlphabet :
        /\ ps' = OnEvent(ps, ev)
        /\ stream_in' = Append(stream_in, ev)
    /\ UNCHANGED nonStreamVars

\* "event = stream.next()" yields None.
StreamEnd ==
    /\ ps.status = "streaming"
    /\ ps' = OnStreamEnd(ps)
    /\ UNCHANGED stream_in
    /\ UNCHANGED nonStreamVars

\* "_ = cancel.cancelled() => return Err(OctoError::Cancelled)"
StreamCancel ==
    /\ ps.status = "streaming"
    /\ ps' = [ps EXCEPT !.status = "cancelled"]
    /\ UNCHANGED stream_in
    /\ UNCHANGED nonStreamVars

NextStream == StreamEvent \/ StreamEnd \/ StreamCancel

SpecStream == InitStream /\ [][NextStream]_vars

(***************************************************************************)
(* C2 - every assistant message process_stream returns holds exactly one   *)
(* Finish part, and it is the last part, whatever events the stream        *)
(* carried (a stream that ends without Complete included).                 *)
(***************************************************************************)
C2_OneFinishLast ==
    ps.status = "returned" =>
        /\ Len(ps.parts) >= 1
        /\ IsFinish(Last(ps.parts))
        /\ Len(SelectSeq(ps.parts, IsFinish)) = 1

IsCompleteEv(e) == e.type = "Complete"
IsToolUseStartEv(e) == e.type = "ToolUseStart"
IsToolUseStopEv(e) == e.type = "ToolUseStop"

\* A message with several parts returned for a stream that never sent Complete.
C2_Witness ==
    /\ ps.status = "returned"
    /\ Len(ps.parts) >= 3
    /\ SelectSeq(stream_in, IsCompleteEv) = <<>>

(***************************************************************************)
(* C9 - process_stream never pushes a ToolCall part with an empty name: a  *)
(* ToolUseStart with name "" (id c2 in the alphabet) contributes no part,  *)
(* whatever deltas, stops and further starts follow it.                    *)
(***************************************************************************)
C9_NoEmptyNameToolCall ==
    \A i \in 1..Len(ps.parts) :
        IsToolCall(ps.parts[i]) =>
            /\ ps.parts[i].name # ""
            /\ ps.parts[i].id # "c2"

\* An empty-name start, then a delta, a stop and a further start were consumed.
C9_Witness ==
    /\ ps.status = "returned"
    /\ \E i \in 1..Len(stream_in) :
        /\ i + 3 <= Len(stream_in)
        /\ stream_in[i] = EvToolUseStart("c2", "")
        /\ stream_in[i + 1].type = "ToolUseDelta"
        /\ stream_in[i + 2].type = "ToolUseStop"
        /\ stream_in[i + 3].type = "ToolUseStart"

(***************************************************************************)
(* Specification SpecToolCalls: process_stream fed a well-framed tool-call *)
(* stream: each ToolUseStart (non-empty name) is followed by its chunks,   *)
(* the ToolUseStop events arrive after each call or batched before         *)
(* Complete (what the adapter does, openai.rs 436-438), then Complete.     *)
(***************************************************************************)
CallIds == <<"c1", "c2", "c3", "c4">>
CallNames == {"view", "bash"}
CallChunks == {"x", "y"}

NumStarts == Len(SelectSeq(stream_in, IsToolUseStartEv))
NumStops == Len(SelectSeq(stream_in, IsToolUseStopEv))
Completed == SelectSeq(stream_in, IsCompleteEv) # <<>>

RECURSIVE TrailingDeltas(_)
\* How many ToolUseDelta events end the sequence s.
TrailingDeltas(s) ==
    IF s = <<>> \/ Last(s).type # "ToolUseDelta" THEN 0
    ELSE 1 + TrailingDeltas(SubSeq(s, 1, Len(s) - 1))

GenStart ==
    /\ ps.status = "streaming" /\ ~Completed
    /\ NumStarts < MaxCalls
    /\ \E name \in CallNames :
        LET ev == EvToolUseStart(CallIds[NumStarts + 1], name)
        IN  /\ ps' = OnEvent(ps, ev)
            /\ stream_in' = Append(stream_in, ev)
    /\ UNCHANGED nonStreamVars

GenDelta ==
    /\ ps.status = "streaming" /\ ~Completed
    /\ stream_in # <<>>
    /\ Last(stream_in).type \in {"ToolUseStart", "ToolUseDelta"}
    /\ TrailingDeltas(stream_in) < MaxChunks
    /\ \E c \in CallChunks :
        /\ ps' = OnEvent(ps, EvToolUseDelta(c))
        /\ stream_in' = Append(stream_in, EvToolUseDelta(c))
    /\ UNCHANGED nonStreamVars

GenStop ==
    /\ ps.status = "streaming" /\ ~Completed
    /\ NumStops < NumStarts
    /\ ps' = OnEvent(ps, EvToolUseStop)
    /\ stream_in' = Append(stream_in, EvToolUseStop)
    /\ UNCHANGED nonStreamVars

GenComplete ==
    /\ ps.status = "streaming" /\ ~Completed
    /\ NumStops = NumStarts
    /\ \E fr \in {"tool_use", "end_turn"} :
        /\ ps' = OnEvent(ps, EvComplete(fr, Usage1))
        /\ stream_in' = Append(stream_in, EvComplete(fr, Usage1))
    /\ UNCHANGED nonStreamVars

GenEnd ==
    /\ ps.status = "streaming" /\ Completed
    /\ ps' = OnStreamEnd(ps)
    /\ UNCHANGED stream_in
    /\ UNCHANGED nonStreamVars

NextToolCalls == GenStart \/ GenDelta \/ GenStop \/ GenComplete \/ GenEnd

SpecToolCalls == InitStream /\ [][NextToolCalls]_vars

RECURSIVE ChunksFrom(_, _)
\* The concatenation of the ToolUseDelta chunks of s from position i up to the
\* next event that is not a ToolUseDelta.
ChunksFrom(s, i) ==
    IF i > Len(s) \/ s[i].type # "ToolUseDelta" THEN ""
    ELSE s[i].input_json_chunk \o ChunksFrom(s, i + 1)

RECURSIVE StartedCalls(_, _)
\* One ToolCall part per ToolUseStart of s from position i on, in order, with
\* the start's id and name and the chunks that followed it.
StartedCalls(s, i) ==
    IF i > Len(s) THEN <<>>
    ELSE IF s[i].type = "ToolUseStart"
         THEN <<ToolCallPart(s[i].id, s[i].name, ChunksFrom(s, i + 1))>>
              \o StartedCalls(s, i + 1)
         ELSE StartedCalls(s, i + 1)

(***************************************************************************)
(* C10 - for a well-framed stream with n ToolUseStart events (non-empty    *)
(* names), the returned message holds exactly n ToolCall parts, in start   *)
(* order, each with its start's id and name and the concatenation of the   *)
(* chunks received while it was the current call.                          *)
(***************************************************************************)
C10_ToolCallsInStartOrder ==
    ps.status = "returned" =>
        tool_calls(ps.parts) = StartedCalls(stream_in, 1)

\* Two calls with two chunks each, their stops batched before Complete.
C10_Witness ==
    /\ ps.status = "returned"
    /\ Len(tool_calls(ps.parts)) = 2
    /\ tool_calls(ps.parts)[1].input = "xy"
    /\ tool_calls(ps.parts)[2].input = "yx"
    /\ \E i \in 1..Len(stream_in) :
        /\ i + 2 <= Len(stream_in)
        /\ stream_in[i].type = "ToolUseStop"
        /\ stream_in[i + 1].type = "ToolUseStop"
        /\ stream_in[i + 2].type = "Complete"

(***************************************************************************)
(* Specification SpecRetry: one stream_response call against a server that *)
(* answers each attempt with any of the outcomes.                          *)
(***************************************************************************)
InitRetry == StreamIdle /\ RetryIdle /\ PermIdle /\ LoopIdle /\ ExtIdle

SpecRetry == InitRetry /\ [][NextRetry]_vars

IsPlain429(o) == o = Response(429, "absent")

(***************************************************************************)
(* C7 - when a 429/502/503 response carries Retry-After: k, the sleep      *)
(* before the next HTTP attempt is exactly k x 1000 ms.                    *)
(* slept[n] is the sleep that follows responses[n].                        *)
(***************************************************************************)
C7_RetryAfterHonoured ==
    \A n \in 1..Len(slept) :
        (/\ responses[n].kind = "response"
         /\ IsRetryStatus(responses[n].status)
         /\ retry_after_ms(responses[n].retry_after) # None)
        => slept[n] = retry_after_ms(responses[n].retry_after)[1]

(***************************************************************************)
(* C8 - on an unbroken run of 429 responses without Retry-After the n-th   *)
(* wait (n = 1..5) lies in [base*2^(n-1), 1.25*base*2^(n-1)] with base =   *)
(* 2000 ms, its un-jittered part is at most 60,000 ms, and the waits never *)
(* decrease, whatever the jitter.                                          *)
(***************************************************************************)
C8_BackoffWindow ==
    (\A i \in 1..Len(responses) : IsPlain429(responses[i])) =>
        /\ Len(slept) <= 5
        /\ \A n \in 1..Len(slept) :
            LET lo == 2000 * Pow2(n - 1)
            IN  /\ lo <= slept[n]
                /\ 4 * slept[n] <= 5 * lo
                /\ \E j \in 0..(lo \div 4) :
                    /\ slept[n] = Min(lo, 60000) + j
                    /\ Min(lo, 60000) <= 60000
        /\ \A n \in 1..(Len(slept) - 1) : slept[n] <= slept[n + 1]

\* Six 429 responses in a row, five waits, the last one with jitter.
C8_Witness ==
    /\ rt_pc = "err"
    /\ Len(responses) = 6
    /\ \A i \in 1..Len(responses) : IsPlain429(responses[i])
    /\ Len(slept) = 5
    /\ slept[1] = 2000
    /\ slept[5] > 32000

(***************************************************************************)
(* Specification SpecPerm: one permission service, line-oriented or TUI,   *)
(* serving requests of two callers and auto_approve_session calls.         *)
(***************************************************************************)
InitPerm ==
    /\ StreamIdle /\ RetryIdle /\ LoopIdle /\ ExtIdle
    /\ perm_kind \in {"cli", "tui"}
    /\ auto_approve_sessions = {}
    /\ persistent_approvals = {}
    /\ perm_chan = <<>>
    /\ pending_permission = None
    /\ tui_alive = TRUE
    /\ calls = [c \in Callers |-> IdleCall]
    /\ issued = 0
    /\ auto_called = {}
    /\ always_returned = {}

SpecPerm == InitPerm /\ [][NextPerm]_vars

(***************************************************************************)
(* C5 - once auto_approve_session(s) has been called, every request made   *)
(* later for session s returns Allow without operator I/O: no stdin read,  *)
(* nothing sent on the TUI channel; for any tool and action, and whatever  *)
(* requests of other sessions are in flight.                               *)
(***************************************************************************)
C5_AutoApproveSticky ==
    \A c \in Callers :
        calls[c].after_auto =>
            /\ calls[c].st = "returned"
            /\ calls[c].decision = "Allow"
            /\ ~calls[c].prompted
            /\ \A i \in 1..Len(perm_chan) : perm_chan[i] # c
            /\ pending_permission # Some(c)

\* A request of an auto-approved session returned while the other caller's
\* request, of another session, is still with the operator.
C5_Witness ==
    \E c, d \in Callers :
        /\ calls[c].after_auto /\ calls[c].st = "returned"
        /\ calls[d].st = "waiting" /\ calls[d].prompted
        /\ calls[d].req.session_id # calls[c].req.session_id

(***************************************************************************)
(* C6 - after a request with triple (session_id, tool_name, action) has    *)
(* been answered AllowPersistent, every later request with the same triple *)
(* returns Allow without the operator prompt; the request the operator     *)
(* answered "always" itself returns AllowPersistent.                       *)
(***************************************************************************)
C6_PersistentApproval ==
    \A c \in Callers :
        /\ calls[c].after_always =>
            /\ calls[c].st = "returned"
            /\ calls[c].decision = "Allow"
            /\ ~calls[c].prompted
        /\ (calls[c].st = "returned" /\ calls[c].answer = "AllowPersistent") =>
            /\ calls[c].decision = "AllowPersistent"
            /\ Triple(calls[c].req) \in always_returned

\* Both cases at once: one caller's request was answered "always", the other
\* caller then made the same request (the session is not auto-approved).
C6_Witness ==
    \E c, d \in Callers :
        /\ calls[c].st = "returned" /\ calls[c].decision = "AllowPersistent"
        /\ calls[d].after_always /\ calls[d].st = "returned"
        /\ calls[d].req = calls[c].req
        /\ calls[d].req.session_id \notin auto_called

(***************************************************************************)
(* Specification SpecLoop: one turn of the agent loop, on a new session or *)
(* on a prior history, for a model with a small or a large context window. *)
(***************************************************************************)
InitLoop ==
    /\ StreamIdle /\ RetryIdle /\ PermIdle /\ ExtIdle
    /\ messages \in PriorHistories
    /\ context_window \in ContextWindows
    /\ loop_pc = "start"
    /\ agent_attempt = 0
    /\ event_stream = <<>>
    /\ assistant_msg = new_assistant("")
    /\ tool_results = <<>>
    /\ tx_events = <<>>
    /\ cancelled = FALSE
    /\ rounds = 0
    /\ pre_trim = <<>>

SpecLoop == InitLoop /\ [][NextLoop]_vars

IsToolResult(p) == p.type = "tool_result"
HasToolCalls(m) == m.role = "assistant" /\ tool_calls(m.parts) # <<>>

\* The tool_call_ids of the ToolCall parts, and of the ToolResult parts, of a
\* message, in order.
CallIdsOf(m) ==
    [i \in 1..Len(tool_calls(m.parts)) |-> tool_calls(m.parts)[i].id]
ResultIdsOf(m) ==
    [i \in 1..Len(SelectSeq(m.parts, IsToolResult)) |->
        SelectSeq(m.parts, IsToolResult)[i].tool_call_id]

\* The message at i holds ToolCalls and the next message is the tool message
\* that answers them: one ToolResult per call, same ids, same order.
Answered(h, i) ==
    /\ i < Len(h)
    /\ h[i + 1].role = "tool"
    /\ Len(h[i + 1].parts) = Len(tool_calls(h[i].parts))
    /\ ResultIdsOf(h[i + 1]) = CallIdsOf(h[i])

\* Every assistant message with ToolCalls is answered by the next message.
AllCallsAnswered(h) == \A i \in 1..Len(h) : HasToolCalls(h[i]) => Answered(h, i)

\* Every tool message with results follows the assistant message that issued
\* its calls.
AllResultsIssued(h) ==
    \A i \in 1..Len(h) :
        (h[i].role = "tool" /\ h[i].parts # <<>>) =>
            /\ i > 1
            /\ h[i - 1].role = "assistant"
            /\ CallIdsOf(h[i - 1]) = ResultIdsOf(h[i])

(***************************************************************************)
(* C1 - in the history the loop builds, every assistant message with       *)
(* ToolCall parts is immediately followed by a tool message with exactly   *)
(* one ToolResult per ToolCall, same tool_call_id, same order, whatever    *)
(* finish reason the stream reported.  Stated where the loop uses or hands *)
(* over the history: before each model call and when the turn completes.   *)
(***************************************************************************)
C1_ToolCallsAnswered ==
    loop_pc \in {"top", "done"} => AllCallsAnswered(messages)

(***************************************************************************)
(* C3 - trim_messages_to_fit never removes the first message nor any of    *)
(* the last 4, keeps the retained messages in their original order, and    *)
(* leaves the history unchanged when it fits the budget or has at most 5   *)
(* messages.  pre_trim is the history given, messages the history left.    *)
(***************************************************************************)
RECURSIVE IsSubsequence(_, _)
\* s can be obtained from t by deleting elements.
IsSubsequence(s, t) ==
    IF s = <<>> THEN TRUE
    ELSE IF t = <<>> THEN FALSE
    ELSE IF Head(s) = Head(t) THEN IsSubsequence(Tail(s), Tail(t))
    ELSE IsSubsequence(s, Tail(t))

TrimBudget ==
    (((context_window - (Len(SystemPrompt) \div 4 + 200)) * 3) \div 4)

C3_TrimKeepsHeadAndTail ==
    loop_pc = "request" =>
        /\ pre_trim # <<>> => (messages # <<>> /\ messages[1] = pre_trim[1])
        /\ \A k \in 0..3 :
            k < Len(pre_trim) =>
                /\ k < Len(messages)
                /\ messages[Len(messages) - k] = pre_trim[Len(pre_trim) - k]
        /\ IsSubsequence(messages, pre_trim)
        /\ (SumMessageTokens(pre_trim) <= TrimBudget \/ Len(pre_trim) <= 5)
            => messages = pre_trim

\* A trim that removed messages from the middle of the history.
C3_Witness ==
    /\ loop_pc = "request"
    /\ Len(messages) < Len(pre_trim)
    /\ Len(messages) >= 5

(***************************************************************************)
(* C4 - after trim_messages_to_fit the retained history has no orphan:     *)
(* every retained assistant message with ToolCalls is still followed by    *)
(* its tool message, and every retained tool message is still preceded by  *)
(* the assistant message that issued its calls.                            *)
(***************************************************************************)
C4_TrimKeepsPairs ==
    (loop_pc = "request" /\ AllCallsAnswered(pre_trim) /\ AllResultsIssued(pre_trim))
        => (AllCallsAnswered(messages) /\ AllResultsIssued(messages))

(***************************************************************************)
(* Specification SpecDecode: one streamed response, decoded payload by     *)
(* payload by the adapter and consumed by process_stream.                  *)
(***************************************************************************)
InitDecode == StreamIdle /\ RetryIdle /\ PermIdle /\ LoopIdle /\ ExtIdle

SpecDecode == InitDecode /\ [][NextDecode]_vars

IsSseContent(ch) == ch.kind = "content"
IsSseRegistration(ch) == ch.kind = "tool_call" /\ ch.name # ""

RECURSIVE SseText(_)
\* The concatenation of the delta.content strings of the payloads.
SseText(chunks) ==
    IF chunks = <<>> THEN ""
    ELSE (IF Head(chunks).kind = "content" THEN Head(chunks).text ELSE "")
             \o SseText(Tail(chunks))

RECURSIVE SseArgs(_, _)
\* The concatenation of the arguments strings streamed for one tool call index.
SseArgs(chunks, index) ==
    IF chunks = <<>> THEN ""
    ELSE (IF Head(chunks).kind = "tool_call" /\ Head(chunks).index = index
          THEN Head(chunks).arguments ELSE "")
             \o SseArgs(Tail(chunks), index)

\* The one-shot response that carries the final content of the streamed one:
\* the whole text (null when no payload had content), the tool calls by index
\* with their whole arguments, the same finish_reason and usage.
OneShotOf(chunks) ==
    LET regs == SelectSeq(chunks, IsSseRegistration)
        fin == SelectSeq(chunks, IsSseFinish)[1]
    IN  [content |-> IF SelectSeq(chunks, IsSseContent) = <<>> THEN None
                     ELSE Some(SseText(chunks)),
         tool_calls |-> [i \in 1..Len(regs) |->
                            [id |-> regs[i].id, name |-> regs[i].name,
                             arguments |-> Some(SseArgs(chunks, regs[i].index))]],
         finish_reason |-> fin.finish_reason,
         usage |-> fin.usage]

IsTextOrToolCall(p) == p.type \in {"text", "tool_call"}

(***************************************************************************)
(* C11 - for every event sequence the adapter's decoder yields, the        *)
(* message process_stream returns has, apart from the Finish part, the     *)
(* same Text and ToolCall parts in the same order, the same finish reason  *)
(* and the same usage as what parse_openai_response builds from a one-shot *)
(* response with the same final content.                                   *)
(***************************************************************************)
C11_StreamMatchesOneShot ==
    (ps.status = "returned" /\ SseFinished) =>
        LET one_shot == parse_openai_response(OneShotOf(sse_in))
        IN  /\ SelectSeq(ps.parts, IsTextOrToolCall) = one_shot.content
            /\ ps.finish_reason = one_shot.finish_reason
            /\ ps.usage = one_shot.usage

(***************************************************************************)
(* Specification SpecTui: one run of the TUI driver over the sessions      *)
(* table: start (resuming or not), turns, session switches, new sessions.  *)
(***************************************************************************)
InitTui == StreamIdle /\ RetryIdle /\ PermIdle /\ LoopIdle /\ ExtIdle

SpecTui == InitTui /\ [][NextTui]_vars

(***************************************************************************)
(* C12 - each completed turn adds exactly that turn's reported usage (and  *)
(* its cost) to the totals persisted for the session, so the persisted     *)
(* prompt_tokens, completion_tokens and cost never decrease; also for a    *)
(* session resumed at start-up or switched to through the session dialog.  *)
(* last_complete holds the usage of the last completed turn and the row    *)
(* the session had before it.                                              *)
(***************************************************************************)
C12_UsageAdditive ==
    last_complete # None =>
        LET r == last_complete[1]
            now == db_sessions[r.session_id]
        IN  /\ now.prompt_tokens = r.before.prompt_tokens + r.usage.input_tokens
            /\ now.completion_tokens =
                   r.before.completion_tokens + r.usage.output_tokens
            /\ now.cost = r.before.cost
                   + calculate_cost(r.usage.input_tokens, r.usage.output_tokens)

(***************************************************************************)
(* Specification SpecTask: the task tools of one agent on one team.        *)
(***************************************************************************)
InitTask == StreamIdle /\ RetryIdle /\ PermIdle /\ LoopIdle /\ ExtIdle

SpecTask == InitTask /\ [][NextTask]_vars

\* The last tool run was a successful task_update(T, status = completed).
CompletedUpdate ==
    /\ last_task_op # None
    /\ last_task_op[1].tool = "task_update"
    /\ last_task_op[1].status = Some("completed")
    /\ last_task_op[1].ok

Lists(list, id) == \E k \in 1..Len(list) : list[k] = id

RECURSIVE Without(_, _)
\* The list with every occurrence of id taken out, the rest in order.
Without(list, id) ==
    IF list = <<>> THEN <<>>
    ELSE IF Head(list) = id THEN Without(Tail(list), id)
    ELSE <<Head(list)>> \o Without(Tail(list), id)

(***************************************************************************)
(* C13 - after task_update(T, status=completed) returns, no other task     *)
(* file of the team lists T in blocked_by, and the other blockers, the     *)
(* status and the other fields of those tasks are as before.               *)
(***************************************************************************)
C13_AutoUnblock ==
    CompletedUpdate =>
        LET T == last_task_op[1].task_id
            before == last_task_op[1].before
        IN  \A o \in DOMAIN before \ {T} :
                /\ o \in DOMAIN task_files
                /\ ~Lists(task_files[o].blocked_by, T)
                /\ task_files[o] =
                       [before[o] EXCEPT !.blocked_by = Without(@, T)]

\* T2 was blocked by T1 and by one more task; T1 was completed.
C13_Witness ==
    /\ CompletedUpdate
    /\ \E o \in DOMAIN last_task_op[1].before \ {last_task_op[1].task_id} :
        /\ Lists(last_task_op[1].before[o].blocked_by, last_task_op[1].task_id)
        /\ Len(last_task_op[1].before[o].blocked_by) = 2
        /\ Len(task_files[o].blocked_by) = 1


\* The positions of tx_events that hold an event of the type for the call id.
EventsOf(type, id) ==
    {i \in 1..Len(tx_events) :
        /\ tx_events[i].type = type
        /\ IF type = "ToolCallInputDelta" \/ type = "ToolCallStart"
           THEN tx_events[i].id = id
           ELSE tx_events[i].tool_call_id = id}

\* The call ids the events of the turn speak of.
EventCallIds ==
    {tx_events[i].id : i \in {j \in 1..Len(tx_events) :
        tx_events[j].type \in {"ToolCallStart", "ToolCallInputDelta"}}}
    \cup {tx_events[i].tool_call_id : i \in {j \in 1..Len(tx_events) :
        tx_events[j].type = "ToolResult"}}

(***************************************************************************)
(* C14 - on the event channel of a turn Started is the first event; for    *)
(* each tool call id the events come in the order ToolCallStart(id), every *)
(* ToolCallInputDelta(id), ToolResult(id); a Complete event is the last    *)
(* event of the turn.                                                      *)
(***************************************************************************)
C14_EventOrder ==
    /\ tx_events # <<>> => tx_events[1].type = "Started"
    /\ \A id \in EventCallIds :
        /\ \A s \in EventsOf("ToolCallStart", id),
              d \in EventsOf("ToolCallInputDelta", id) : s < d
        /\ \A d \in EventsOf("ToolCallInputDelta", id),
              r \in EventsOf("ToolResult", id) : d < r
        /\ \A s \in EventsOf("ToolCallStart", id),
              r \in EventsOf("ToolResult", id) : s < r
    /\ \A i \in 1..Len(tx_events) :
        tx_events[i].type = "Complete" => i = Len(tx_events)


\* The ToolResult event the Err arm of "match tool.run(..)" sends.
IsToolErrorEvent(e) == e.type = "ToolResult" /\ e.is_error

(***************************************************************************)
(* C15 - when tool.run returns a ToolError the turn does not abort: a      *)
(* ToolResult part with is_error = true and the error message is recorded  *)
(* for the call id, the remaining calls of the assistant message are run   *)
(* in order, and the loop goes on to the next model call.                  *)
(***************************************************************************)
C15_ToolErrorContinues ==
    LET cs == tool_calls(assistant_msg.parts)
    IN  /\ Len(tool_results) <= Len(cs)
        /\ \A k \in 1..Len(tool_results) : tool_results[k].tool_call_id = cs[k].id
        /\ \A i \in 1..Len(tx_events), k \in 1..Len(cs) :
            (IsToolErrorEvent(tx_events[i]) /\ tx_events[i].tool_call_id = cs[k].id)
            => /\ k <= Len(tool_results)
               /\ tool_results[k] =
                     ToolResultPart(cs[k].id,
                                    wrap_tool_output(cs[k].name, tx_events[i].result),
                                    TRUE)
        /\ (tx_events # <<>> /\ IsToolErrorEvent(Last(tx_events)))
           => loop_pc \in {"dispatch", "top", "request", "stream"}
        /\ (loop_pc = "top" /\ rounds >= 1)
           => /\ Len(tool_results) = Len(cs)
              /\ Last(messages).role = "tool"
              /\ Last(messages).parts = tool_results

\* The first of two calls failed, the second was run after it, and the loop
\* is at the next model call.
C15_Witness ==
    LET cs == tool_calls(assistant_msg.parts)
    IN  /\ loop_pc = "request"
        /\ rounds = 1
        /\ Len(cs) = 2
        /\ Len(tool_results) = 2
        /\ tool_results[1].is_error
        /\ \E i, j \in 1..Len(tx_events) :
            /\ i < j
            /\ IsToolErrorEvent(tx_events[i])
            /\ tx_events[i].tool_call_id = cs[1].id
            /\ tx_events[j].type = "ToolCallStart"
            /\ tx_events[j].id = cs[2].id


\* The first call of the assistant message that names no tool of the
\* catalog (0: there is none).
FirstUnknownCall ==
    LET cs == tool_calls(assistant_msg.parts)
        unknown == {k \in 1..Len(cs) : cs[k].name \notin ToolCatalog}
    IN  IF unknown = {} THEN 0
        ELSE CHOOSE k \in unknown : \A j \in unknown : k <= j

\* The assistant message of the round came with finish reason ToolUse.
FinishedWithToolUse ==
    /\ assistant_msg.parts # <<>>
    /\ Last(assistant_msg.parts) = FinishPart("tool_use")

(***************************************************************************)
(* C16 - when an assistant message with finish reason ToolUse names a tool *)
(* that is not in the catalog, the turn ends with an Error event and no    *)
(* Complete event; that call and every later call of the message are not   *)
(* run, and no tool-role message is appended for that assistant message.   *)
(***************************************************************************)
C16_UnknownToolIsFatal ==
    (FinishedWithToolUse /\ FirstUnknownCall # 0) =>
        LET cs == tool_calls(assistant_msg.parts)
        IN  /\ loop_pc \in {"dispatch", "failed"}
            /\ loop_pc = "failed" =>
                /\ Last(tx_events).type = "Error"
                /\ \A i \in 1..Len(tx_events) : tx_events[i].type # "Complete"
            /\ \A k \in FirstUnknownCall..Len(cs) :
                /\ EventsOf("ToolCallStart", cs[k].id) = {}
                /\ EventsOf("ToolResult", cs[k].id) = {}
            /\ Len(tool_results) < FirstUnknownCall
            /\ Last(messages) = assistant_msg

\* The turn has ended on the unknown tool, with a later call left alone.
C16_Witness ==
    /\ FinishedWithToolUse
    /\ FirstUnknownCall # 0
    /\ FirstUnknownCall < Len(tool_calls(assistant_msg.parts))
    /\ loop_pc = "failed"
    /\ Last(tx_events) = [type |-> "Error", error |-> "Tool not found"]


\* A step that calls provider.stream_response: any pass of the retry block.
StreamResponseCall ==
    /\ loop_pc = "request"
    /\ (loop_pc' # loop_pc \/ agent_attempt' # agent_attempt)

\* A step that calls tool.run.
ToolRun ==
    /\ loop_pc = "dispatch"
    /\ Len(tool_results') > Len(tool_results)

(***************************************************************************)
(* C20 - once the cancellation token of the turn has fired, the loop       *)
(* starts no further provider.stream_response call and no further          *)
(* tool.run: the token is checked before each model call, the loop-level   *)
(* retries after RateLimited included, and before each tool dispatch.      *)
(* (The first call of a retry block follows the check at the head of the   *)
(* loop with no await in between; it is left out here.)                    *)
(***************************************************************************)
C20_NoCallAfterCancel ==
    [][ /\ (cancelled /\ agent_attempt > 0) => ~StreamResponseCall
        /\ cancelled => ~ToolRun ]_vars


(***************************************************************************)
(* Specification SpecBash: runs of the bash tool against a permission      *)
(* service whose sessions may be auto-approved.                            *)
(***************************************************************************)
InitBash == StreamIdle /\ RetryIdle /\ PermIdle /\ LoopIdle /\ ExtIdle

SpecBash == InitBash /\ [][NextBash]_vars

\* The command holds a pattern of the deny-list, letter case apart.
MatchesDenyList(command) ==
    \E pat \in DANGEROUS_PATTERNS :
        contains(to_lowercase(command), to_lowercase(pat))

\* The command, leading blanks apart, starts with a prefix of the allow-list.
MatchesAllowList(command) ==
    \E safe \in SAFE_PREFIXES : starts_with(trim(command), safe)

(***************************************************************************)
(* C17 - the bash tool executes a command if and only if it matches no     *)
(* deny-list pattern and either starts with an allow-list prefix or the    *)
(* permission service answers Allow/AllowPersistent; a deny-list match     *)
(* fails with PermissionDenied without consulting the service, even for an *)
(* auto-approved session or a persistently approved key; an allow-list     *)
(* command runs without consulting it, even when it would answer Deny.     *)
(***************************************************************************)
C17_BashGate ==
    last_bash # None =>
        LET r == last_bash[1]
        IN  /\ r.executed <=>
                 /\ ~MatchesDenyList(r.command)
                 /\ \/ MatchesAllowList(r.command)
                    \/ r.decision \in {"Allow", "AllowPersistent"}
            /\ MatchesDenyList(r.command) =>
                 /\ ~r.consulted
                 /\ r.result = "PermissionDenied"
            /\ (~MatchesDenyList(r.command) /\ MatchesAllowList(r.command)) =>
                 /\ ~r.consulted
                 /\ r.executed


(***************************************************************************)
(* Specification SpecTeam: the team tools of the lead process and the      *)
(* members leaving its team.                                               *)
(***************************************************************************)
InitTeam == StreamIdle /\ RetryIdle /\ PermIdle /\ LoopIdle /\ ExtIdle

SpecTeam == InitTeam /\ [][NextTeam]_vars

\* The last tool run was team_delete on an active team whose config was
\* there and listed n members.
DeletedWith(n) ==
    /\ last_team_op # None
    /\ last_team_op[1].tool = "team_delete"
    /\ LET b == last_team_op[1].before
       IN  /\ b.team_state # None
           /\ b.team_state[1].team_name \in DOMAIN b.team_dirs
           /\ Len(b.team_dirs[b.team_state[1].team_name].members) = n

C18_WitnessDeleted ==
    /\ DeletedWith(1)
    /\ Cardinality(DOMAIN last_team_op[1].before.team_dirs) = 2
    /\ last_team_op[1].result = "success"


(***************************************************************************)
(* Specification SpecInbox: messages sent to, and inboxes checked by, the  *)
(* agents of a team, one tool run at a time.                               *)
(***************************************************************************)
InitInbox == StreamIdle /\ RetryIdle /\ PermIdle /\ LoopIdle /\ ExtIdle

SpecInbox == InitInbox /\ [][NextInbox]_vars

RECURSIVE Flatten(_)
\* The concatenation of a sequence of sequences.
Flatten(ss) == IF ss = <<>> THEN <<>> ELSE Head(ss) \o Flatten(Tail(ss))

(***************************************************************************)
(* C19 - with appends and check_inbox calls run one at a time, every       *)
(* message appended to the inbox of an agent is returned by exactly one    *)
(* check_inbox call of that agent, the first one after the append;         *)
(* messages are returned in append order, and none is returned again.      *)
(***************************************************************************)
C19_InboxExactlyOnce ==
    \A a \in Agents :
        \* what was returned so far, then what is still unread, is what was
        \* appended, in append order and each message once
        /\ Flatten(inbox_returned[a]) \o Timestamps(unread(inbox_files[a]))
               = inbox_sent[a]
        \* a check_inbox leaves nothing for a later one
        /\ (last_inbox_op # None /\ last_inbox_op[1].tool = "check_inbox"
              /\ last_inbox_op[1].agent = a)
           => /\ unread(inbox_files[a]) = <<>>
              /\ Flatten(inbox_returned[a]) = inbox_sent[a]

\* An agent checked twice, with messages sent before each check: the second
\* check returned the later message only.
C19_Witness ==
    \E a \in Agents :
        /\ last_inbox_op # None
        /\ last_inbox_op[1].tool = "check_inbox"
        /\ last_inbox_op[1].agent = a
        /\ Len(inbox_returned[a]) = 2
        /\ Len(inbox_returned[a][1]) = 2
        /\ Len(inbox_returned[a][2]) = 1


\* The position of the first Complete event read so far (0: none yet).
FirstComplete ==
    LET ks == {i \in 1..Len(stream_in) : IsCompleteEv(stream_in[i])}
    IN  IF ks = {} THEN 0 ELSE CHOOSE k \in ks : \A j \in ks : k <= j

\* What process_stream returns when the stream ends with its first Complete.
ReturnedAtComplete ==
    OnStreamEnd(FoldEvents(PsNew, SubSeq(stream_in, 1, FirstComplete)))

(***************************************************************************)
(* C23 - once process_stream has received a Complete event it stops        *)
(* consuming the stream: no provider event that arrives after Complete     *)
(* changes the assistant message, the finish reason or the usage, or makes *)
(* the turn fail.                                                          *)
(***************************************************************************)
C23_CompleteEndsStream ==
    FirstComplete # 0 =>
        /\ ps.status # "failed"
        /\ ps.status = "returned" =>
            /\ ps.parts = ReturnedAtComplete.parts
            /\ ps.finish_reason = ReturnedAtComplete.finish_reason
            /\ ps.usage = ReturnedAtComplete.usage


IsReasoning(p) == p.type = "reasoning"

(***************************************************************************)
(* C24 - an assistant message built by process_stream holds at most one    *)
(* Reasoning part, and it precedes every Text and ToolCall part, for any   *)
(* interleaving of ThinkingDelta, ContentDelta and ToolUseStart events.    *)
(***************************************************************************)
C24_OneReasoningFirst ==
    ps.status = "returned" =>
        /\ Len(SelectSeq(ps.parts, IsReasoning)) <= 1
        /\ \A i, j \in 1..Len(ps.parts) :
            (IsReasoning(ps.parts[i]) /\ ps.parts[j].type \in {"text", "tool_call"})
            => i < j


IsSseMalformed(ch) == ch.kind = "malformed"

(***************************************************************************)
(* C25 - a malformed SSE payload makes the adapter emit                    *)
(* ProviderEvent::Error and end the stream, so that the turn fails.        *)
(***************************************************************************)
C25_MalformedPayloadFails ==
    SelectSeq(sse_in, IsSseMalformed) # <<>> =>
        /\ stream_in # <<>>
        /\ Last(stream_in) = EvError
        /\ ps.status = "failed"


IsRateLimitedEv(e) == e.type = "Error" /\ e.error = "Rate limited"

\* The events sent since the last one that is not a rate-limit notice: the
\* notices of the retry block in progress.
RECURSIVE TrailingNotices(_)
TrailingNotices(evs) ==
    IF evs = <<>> \/ ~IsRateLimitedEv(Last(evs)) THEN <<>>
    ELSE Append(TrailingNotices(SubSeq(evs, 1, Len(evs) - 1)), Last(evs))

(***************************************************************************)
(* C26 - for one model round the loop calls provider.stream_response at    *)
(* most 3 times (attempt 0, 1, 2): after RateLimited{retry_after_ms} it    *)
(* sleeps max(retry_after_ms, 5000) * (attempt + 1) ms and retries, after  *)
(* the third RateLimited result the turn fails with an Error event, and    *)
(* any other provider error aborts the turn at once.                       *)
(***************************************************************************)
C26_LoopRetries ==
    /\ agent_attempt \in 0..3
    /\ loop_pc = "request" => agent_attempt < 3
    /\ agent_attempt = 3 =>
        /\ loop_pc = "failed"
        /\ Last(tx_events) = [type |-> "Error", error |-> "Provider"]
    /\ loop_pc = "request" => Len(TrailingNotices(tx_events)) = agent_attempt
    /\ \A i \in 1..Len(tx_events) :
        IsRateLimitedEv(tx_events[i]) =>
            /\ tx_events[i].attempt \in 1..3
            /\ \E ms \in RateLimitedMs(1) \cup RateLimitedMs(2) :
                tx_events[i].wait = Max(ms, 5000) * tx_events[i].attempt

\* The third RateLimited result of a round whose server asked for 2 s: the
\* loop waited 5, 10 and 15 s and the turn failed.
C26_Witness ==
    /\ loop_pc = "failed"
    /\ agent_attempt = 3
    /\ Len(tx_events) >= 4
    /\ LET n == Len(tx_events)
       IN  /\ IsRateLimitedEv(tx_events[n - 3]) /\ tx_events[n - 3].wait = 5000
           /\ IsRateLimitedEv(tx_events[n - 2]) /\ tx_events[n - 2].wait = 10000
           /\ IsRateLimitedEv(tx_events[n - 1]) /\ tx_events[n - 1].wait = 15000
           /\ tx_events[n] = [type |-> "Error", error |-> "Provider"]


\* The HTTP request ended in a condition the adapter retries after.
Retryable(o) == o.kind = "conn_error" \/ o.status \in {429, 502, 503}

IsSuccess(o) == o.kind = "response" /\ o.status \in 200..299

(***************************************************************************)
(* C27 - one stream_response call issues at most 6 HTTP requests; request  *)
(* k+1 is issued only if request k ended in status 429, 502, 503 or in a   *)
(* connection error; the first 2xx response ends the retries with success, *)
(* and the first other non-2xx response ends them with                     *)
(* ProviderError::Api{status} without any further request.                 *)
(***************************************************************************)
C27_AdapterRetries ==
    /\ Len(responses) <= 6
    /\ \A k \in 1..(Len(responses) - 1) : Retryable(responses[k])
    /\ responses # <<>> =>
        /\ IsSuccess(Last(responses)) => (rt_pc = "ok" /\ resp_ok)
        /\ (~IsSuccess(Last(responses)) /\ ~Retryable(Last(responses))) =>
            /\ rt_pc = "err"
            /\ last_err = [kind |-> "Api", status |-> Last(responses).status]
    /\ rt_pc = "ok" => (responses # <<>> /\ IsSuccess(Last(responses)))

\* The sixth request succeeded after five retryable failures.
C27_Witness ==
    /\ Len(responses) = 6
    /\ rt_pc = "ok"
    /\ \E k \in 1..5 : responses[k].kind = "conn_error"
    /\ \E k \in 1..5 : responses[k].kind = "response"

(***************************************************************************)
(* C28 - when all 6 adapter attempts fail with retryable conditions (any   *)
(* mix of 429/502/503 responses and connection errors), the call returns   *)
(* ProviderError::RateLimited carrying a backoff.                          *)
(***************************************************************************)
C28_ExhaustedIsRateLimited ==
    (/\ rt_pc = "err"
     /\ Len(responses) = 6
     /\ \A k \in 1..6 : Retryable(responses[k]))
    => /\ last_err.kind = "RateLimited"
       /\ last_err.retry_after_ms > 0


\* The messages between the first message and the last four.
Intermediate(msgs) ==
    IF Len(msgs) <= 5 THEN <<>> ELSE SubSeq(msgs, 2, Len(msgs) - 4)

IsSuffix(s, t) ==
    /\ Len(s) <= Len(t)
    /\ s = SubSeq(t, Len(t) - Len(s) + 1, Len(t))

(***************************************************************************)
(* C30 - when trim_messages_to_fit discards intermediate messages (those   *)
(* between the first message and the last 4), it discards the oldest ones  *)
(* first: the intermediate messages it keeps are a suffix of the           *)
(* intermediate range of the history it was given.                         *)
(***************************************************************************)
C30_OldestDiscardedFirst ==
    (Len(pre_trim) > 5 /\ Len(messages) < Len(pre_trim) /\ loop_pc = "request")
    => /\ Len(messages) >= 5
       /\ IsSuffix(SubSeq(messages, 2, Len(messages) - 4), Intermediate(pre_trim))


InitThrottle == StreamIdle /\ RetryIdle /\ PermIdle /\ LoopIdle /\ ExtIdle

SpecThrottle == InitThrottle /\ [][NextThrottle]_vars

(***************************************************************************)
(* C29 - for one provider instance used by any number of concurrent        *)
(* callers, any two HTTP requests it initiates (first attempts and retries *)
(* alike) start at least 500 ms apart.                                     *)
(***************************************************************************)
C29_RequestsSpaced ==
    Len(req_starts) = 2 => req_starts[2] - req_starts[1] >= 500


InitTurn == StreamIdle /\ RetryIdle /\ PermIdle /\ LoopIdle /\ ExtIdle

SpecTurn == InitTurn /\ [][NextTurn]_vars

(***************************************************************************)
(* C21 - within one session turns are serial: Agent::run is never called   *)
(* for a new user input while the background task of an earlier turn of    *)
(* that session is still running; in the TUI also after it has handled an  *)
(* Error event or a user cancel.                                           *)
(***************************************************************************)
C21_TurnsSerial ==
    \A i, j \in DOMAIN bg_tasks :
        (i < j /\ bg_tasks[i].session_id = bg_tasks[j].session_id
               /\ bg_tasks[j].pc = "request" /\ bg_tasks[j].agent_attempt = 0)
        => ~TaskRunning(bg_tasks[i])


InitEdit == StreamIdle /\ RetryIdle /\ PermIdle /\ LoopIdle /\ ExtIdle

SpecEdit == InitEdit /\ [][NextEdit]_vars

\* The offsets at which old_string occurs in content.
Occurrences(content, old_string) ==
    {i \in 1..(Len(content) - Len(old_string) + 1) :
        SubSeq(content, i, i + Len(old_string) - 1) = old_string}

OccursOnce(file, old_string) ==
    file # None /\ Cardinality(Occurrences(file[1], old_string)) = 1

(***************************************************************************)
(* C22 - the edit tool changes the file only when old_string occurs        *)
(* exactly once in it and the permission service answers Allow or          *)
(* AllowPersistent; when the file is missing, old_string occurs 0 or more  *)
(* than 1 times, or the answer is Deny, the file content is unchanged.     *)
(* The permission service is consulted only after the uniqueness check     *)
(* has passed.                                                             *)
(***************************************************************************)
C22_EditOnlyWhenUnique ==
    last_edit # None =>
        LET e == last_edit[1]
        IN  /\ e.after # e.before =>
                /\ OccursOnce(e.before, e.old_string)
                /\ e.decision \in {"Allow", "AllowPersistent"}
            /\ (~OccursOnce(e.before, e.old_string) \/ e.decision = "Deny")
                => e.after = e.before
            /\ e.consulted => OccursOnce(e.before, e.old_string)


InitSib == StreamIdle /\ RetryIdle /\ PermIdle /\ LoopIdle /\ ExtIdle

SpecSib == InitSib /\ [][NextSib]_vars

\* The messages whose append_inbox call returned and that the inbox lacks.
LostMessages ==
    {m \in sib_sent : ~\E i \in 1..Len(sib_inbox) : sib_inbox[i] = m}

(***************************************************************************)
(* C31 - inbox appends are not atomic: two sibling processes that run      *)
(* append_inbox on one inbox can interleave their read and write steps so  *)
(* that the inbox holds only one of the two messages.  A message is lost   *)
(* exactly when some process wrote the list back after another write had   *)
(* changed the file since its read.                                        *)
(***************************************************************************)
C31_AppendsRace ==
    /\ (LostMessages # {}) <=> ("inbox" \in sib_stale)
    /\ \A p \in Siblings :
        sib_pc[p] = "append" => ~\E i \in 1..Len(sib_inbox) : sib_inbox[i] = SibItem(p)

\* Both processes have appended one message and the inbox holds one of them.
C31_Witness ==
    /\ \A p \in Siblings : sib_pc[p] = "idle"
    /\ sib_sent = {[from |-> "w1", n |-> 1], [from |-> "w2", n |-> 1]}
    /\ Len(sib_inbox) = 1

\* Two task_create runs that returned the same id.
SameId ==
    \E c, d \in sib_created : c # d /\ c.id = d.id

(***************************************************************************)
(* C32 - task id allocation is not safe across processes: two processes    *)
(* that run next_task_id concurrently can both get the same id, and the    *)
(* second task_create then overwrites the first one's task file.  Two      *)
(* runs return the same id only after a counter write from a stale read,   *)
(* and then the one file of that id holds the task written last.           *)
(***************************************************************************)
C32_TaskIdsRace ==
    /\ SameId => "counter" \in sib_stale
    /\ \A c \in sib_created : c.id \in DOMAIN sib_tasks
    /\ Cardinality(DOMAIN sib_tasks) = Cardinality({c.id : c \in sib_created})
    /\ (\A p \in Siblings : sib_pc[p] # "task" /\ "counter" \in sib_stale) => SameId

\* Both processes have run one task_create, both got id 1, and the file of
\* task 1 holds the second one's task only.
C32_Witness ==
    /\ \A p \in Siblings : sib_pc[p] = "idle"
    /\ sib_created = {[run |-> [from |-> "w1", n |-> 1], id |-> 1],
                      [run |-> [from |-> "w2", n |-> 1], id |-> 1]}
    /\ DOMAIN sib_tasks = {1}


\* The last tool run was spawn_agent on an active team whose config was there.
SpawnedOn(team) ==
    /\ last_team_op # None
    /\ last_team_op[1].tool = "spawn_agent"
    /\ last_team_op[1].before.team_state # None
    /\ last_team_op[1].before.team_state[1].team_name = team
    /\ team \in DOMAIN last_team_op[1].before.team_dirs

Distinct(members) ==
    \A i, j \in 1..Len(members) : i # j => members[i] # members[j]

(***************************************************************************)
(* C33 - in every state of a team's config.json the member names are       *)
(* pairwise distinct, after any sequence of team_create, spawn_agent and   *)
(* shutdown_response operations; a spawn_agent for a name already present  *)
(* returns an error result, leaves the config unchanged and forks no       *)
(* child.                                                                  *)
(***************************************************************************)
C33_MemberNamesDistinct ==
    /\ \A team \in DOMAIN team_dirs : Distinct(team_dirs[team].members)
    /\ \A team \in TeamNames :
        (SpawnedOn(team) /\ member_exists(last_team_op[1].before.team_dirs[team],
                                          last_team_op[1].name))
        => /\ last_team_op[1].result = "error"
           /\ TeamSnapshot = last_team_op[1].before
           /\ ~last_team_op[1].forked

\* spawn_agent was refused for the name of a worker of a team of three.
C33_Witness ==
    /\ \E team \in TeamNames :
        /\ SpawnedOn(team)
        /\ Len(team_dirs[team].members) = 3
        /\ last_team_op[1].name \in WorkerNames
    /\ last_team_op[1].result = "error"

(***************************************************************************)
(* C38 - if spawn_agent fails after validation (the current executable     *)
(* cannot be resolved or the child cannot be forked), the team config is   *)
(* left as it was before the call: the new member is not registered.       *)
(***************************************************************************)
C38_FailedSpawnLeavesConfig ==
    \A team \in TeamNames :
        (/\ SpawnedOn(team)
         /\ ~member_exists(last_team_op[1].before.team_dirs[team], last_team_op[1].name)
         /\ last_team_op[1].result = "Err")
        => team_dirs = last_team_op[1].before.team_dirs


(***************************************************************************)
(* C34 - an Error event is terminal on a turn's channel: it is emitted     *)
(* only when the turn's background task is ending, and no further event    *)
(* (delta, tool event, Complete or another Error) follows it.              *)
(***************************************************************************)
C34_ErrorIsTerminal ==
    \A i \in 1..Len(tx_events) :
        tx_events[i].type = "Error" =>
            /\ i = Len(tx_events)
            /\ loop_pc = "failed"


InitGate == StreamIdle /\ RetryIdle /\ PermIdle /\ LoopIdle /\ ExtIdle

SpecGate == InitGate /\ [][NextGate]_vars

(***************************************************************************)
(* C35 - when the cancellation token fires while a dispatched tool is      *)
(* blocked waiting for a permission decision, that tool performs no side   *)
(* effect afterwards, even if the operator then answers Allow: nothing is  *)
(* written on behalf of a cancelled turn.                                  *)
(***************************************************************************)
C35_NoWriteAfterCancel ==
    \A w \in wt_writes : ~w.fired_waiting


\* The ToolCall part process_stream built for the call registered at index.
PartsOfIndex(index) ==
    {k \in 1..Len(ps.parts) :
        ps.parts[k].type = "tool_call" /\ ps.parts[k].id = SseCallId(index)}

(***************************************************************************)
(* C36 - each ToolCall part's input is exactly the concatenation, in       *)
(* arrival order, of the argument fragments the server sent for that tool  *)
(* call's index, also when fragments of different indices are interleaved  *)
(* in the SSE stream or a fragment arrives for an index that was never     *)
(* registered.                                                             *)
(***************************************************************************)
C36_InputIsConcatenation ==
    (ps.status = "returned" /\ SseFinished) =>
        \A index \in 0..MaxSse : \A k \in PartsOfIndex(index) :
            ps.parts[k].input = SseArgs(sse_in, index)


\* ---------------------------------------------------------------------------
\* C37: the usage carried by the Complete event of a turn is the usage the
\* provider reported for the final round: Complete is the only event with a
\* usage, it is the last event, its usage is that of round `rounds`, and the
\* usage of no earlier round of the turn appears in any event sent.
HasUsage(e) == "usage" \in DOMAIN e

C37_CompleteUsageIsLastRound ==
    /\ \A i \in DOMAIN tx_events :
          HasUsage(tx_events[i]) =>
              /\ tx_events[i].type = "Complete"
              /\ i = Len(tx_events)
              /\ loop_pc = "done"
              /\ tx_events[i].usage = RoundUsage(rounds)
    /\ \A i \in DOMAIN tx_events : \A r \in 1..(rounds - 1) :
          HasUsage(tx_events[i]) => tx_events[i].usage # RoundUsage(r)
    /\ loop_pc = "done" =>
          /\ tx_events # <<>>
          /\ HasUsage(tx_events[Len(tx_events)])

\* A turn that ended after a tool-use round and a final round.
C37_Witness ==
    /\ loop_pc = "done"
    /\ rounds = 2
    /\ \E i \in DOMAIN tx_events : tx_events[i].type = "ToolResult"
    /\ tx_events[Len(tx_events)].type = "Complete"
    /\ tx_events[Len(tx_events)].usage = RoundUsage(2)


\* ---------------------------------------------------------------------------
\* C39: after any sequence of task_create and task_update calls no task file
\* lists in blocked_by the id of a task whose status is completed.
ListsCompleted(task) ==
    \E k \in 1..Len(task.blocked_by) :
        /\ task.blocked_by[k] \in DOMAIN task_files
        /\ task_files[task.blocked_by[k]].status = "completed"

C39_NoCompletedBlocker ==
    \A i \in DOMAIN task_files : ~ListsCompleted(task_files[i])

\* The same with a task that lists itself left aside: still violated, by an
\* add_blocked_by that names a task completed earlier.
C39_NoOtherCompletedBlocker ==
    \A i \in DOMAIN task_files :
        \A k \in 1..Len(task_files[i].blocked_by) :
            LET b == task_files[i].blocked_by[k]
            IN  (b # i /\ b \in DOMAIN task_files)
                    => task_files[b].status # "completed"


(***************************************************************************)
(* Specification SpecTrunc: one bash call whose output is near MAX_OUTPUT, *)
(* and the end of its turn.                                                *)
(***************************************************************************)
InitTrunc == StreamIdle /\ RetryIdle /\ PermIdle /\ LoopIdle /\ ExtIdle

SpecTrunc == InitTrunc /\ [][NextTrunc]_vars

\* ---------------------------------------------------------------------------
\* C40: the bash tool returns a result for every output, also when byte
\* 30,000 of an output longer than that falls inside a multi-byte character:
\* the truncation never aborts the task, and a turn that is over ended with
\* a Complete or an Error event.
C40_TruncationNeverAborts ==
    /\ bt_pc # "panicked"
    /\ bt_pc \in {"returned", "next_round", "done"} => bt_result # None
    /\ bt_pc = "done" =>
          bt_events[Len(bt_events)].type \in {"Complete", "Error"}

\* The outputs BashTool::run aborts on: longer than MAX_OUTPUT with byte
\* MAX_OUTPUT inside a character.
SplitsCharacter(out) ==
    LET result == collect_output(out.stdout, out.stderr)
    IN  /\ byte_len(result) > MAX_OUTPUT
        /\ ~is_char_boundary(result, MAX_OUTPUT)

\* The abort happens on those outputs only, inside BashTool::run; the
\* truncation of agent_loop never aborts.
AbortsOnSplitCharacter ==
    /\ bt_pc = "panicked" => (bt_result = None /\ SplitsCharacter(bt_out[1]))
    /\ bt_pc \in {"returned", "next_round", "done"} => ~SplitsCharacter(bt_out[1])

====
